---- MODULE Spec2Model ----
(***************************************************************************)
(* littlecache: an in-process key-value cache with three engines behind    *)
(* one interface (LittleCache): DefCache (no eviction, reject on full),    *)
(* LRUCache (map + doubly linked list between two sentinels) and LFUCache  *)
(* (map + one circular doubly linked list per frequency, and minFreq).     *)
(*                                                                         *)
(* The linked structures are modelled at the level of the pointers: heap   *)
(* maps an address to the fields of the node stored there.  An engine is   *)
(* handled as the record of its fields; a call maps the record before to   *)
(* the record after.  A call that holds the engine's lock from its first   *)
(* to its last statement is one step.  LRUCache.Get and LFUCache.Get give  *)
(* the lock up between the lookup and the update of the list: under        *)
(* concurrent callers (SpecConc) each of their critical sections is a step *)
(* of its own; where calls are sequential (Spec, SpecTests, SpecTTL,       *)
(* SpecDecorator) every call runs to completion before the next starts.    *)
(***************************************************************************)
EXTENDS Integers, Sequences, FiniteSets, TLC

(* ---- bounds of the model ---- *)
NumKeys == 3
MaxCap == 3
MaxFreq == 2
\* the scale of the repository's tests: keys A..D, capacity up to 4, frequency up to 4
TestMaxCap == 4
TestMaxFreq == 4
NumTTLKeys == 2
MaxTime == 2
MaxTTL == 2
DefaultTTL == 2
NumThreads == 2
NumConcKeys == 2

Keys == 1..NumKeys
\* values are opaque handles the engines store and never inspect: two of them tell
\* an old value from a new one
Vals == {1, 2}
Caps == 1..MaxCap
ResizeArgs == (-1)..MaxCap

(* the keys of the documented scenarios *)
KeyA == 1
KeyB == 2
KeyC == 3
KeyD == 4
TestKeys == {KeyA, KeyB, KeyC, KeyD}

(* ---- addresses: Go pointers are opaque, so is the choice of numbers ---- *)
Nil == 0
LruHead == -1
LruTail == -2
BucketAddr(freq) == -(2 + freq)
NewNode(key) == key

VARIABLES
    policy,    \* config.EvictionPolicy of the engine under test
    maxSize,   \* config.MaxSize
    data,      \* DefCache.data
    cache,     \* LRUCache.cache / LFUCache.cache: key -> address of its node
    size,      \* LRUCache.size / LFUCache.size
    heap,      \* the nodes: address -> [key, value, (freq,) prev, next]
    freqMap,   \* LFUCache.freqMap: frequency -> address of the bucket's sentinel
    minFreq,   \* LFUCache.minFreq
    fault,     \* TRUE once a call has panicked (nil pointer dereference)
    wrapped,   \* TRUE when the engine is owned by a TTLCache and called through it
    ttlEntries,\* TTLCache.ttlEntries: key -> [Value, ExpiresAt]
    now,       \* time.Now(), in ticks
    sweeper,   \* where the goroutine of startCleanup is: "select", "cleanup" (a tick
               \* received, cleanup not yet run), "exited"; "none" without a TTLCache
    stopCleanup,\* TTLCache.stopCleanup: the values in the channel's buffer (0 or 1)
    tickerC,   \* ticker.C: the ticks in the ticker channel's buffer (0 or 1)
    pending,   \* the Get calls in flight: thread -> [pc, key, node, value], the
               \* locals of a Get between two of its critical sections
    last,      \* history: the last call and what it returned
    recency,   \* history: the present keys, most recently Set or hit first
    step       \* history: <<scenario, n>> while the calls so far are the first n of
               \* that scenario, <<"none", 0>> otherwise

engineVars == <<policy, maxSize, data, cache, size, heap, freqMap, minFreq, fault>>
sweepVars == <<sweeper, stopCleanup, tickerC>>
ttlVars == <<wrapped, ttlEntries, now, sweeper, stopCleanup, tickerC>>
vars == <<policy, maxSize, data, cache, size, heap, freqMap, minFreq, fault,
          wrapped, ttlEntries, now, sweeper, stopCleanup, tickerC,
          pending, last, recency, step>>

(* ---- Go maps ---- *)
EmptyMap == [x \in {} |-> Nil]
MapPut(m, k, x) == [kk \in (DOMAIN m) \cup {k} |-> IF kk = k THEN x ELSE m[kk]]
MapDel(m, k) == [kk \in (DOMAIN m) \ {k} |-> m[kk]]
MapGet(m, k) == IF k \in DOMAIN m THEN m[k] ELSE Nil
Range(m) == {m[k] : k \in DOMAIN m}

(* ---- the garbage collector: nodes no pointer leads to are gone ---- *)
RECURSIVE Reach(_, _)
Reach(h, S) ==
    LET T == (S \cup {h[a].prev : a \in S} \cup {h[a].next : a \in S}) \cap DOMAIN h
    IN  IF T = S THEN S ELSE Reach(h, T)

Collect(h, roots) == [a \in Reach(h, roots \cap DOMAIN h) |-> h[a]]

(* ---- history helpers ---- *)
RemoveKey(seq, k) == SelectSeq(seq, LAMBDA x : x # k)
Touch(seq, k) == <<k>> \o RemoveKey(seq, k)
Present(seq, keys) == SelectSeq(seq, LAMBDA x : x \in keys)

\* keys of equal frequency keep their order; across frequencies the order is never
\* looked at again (a touch changes the frequency and makes the key the newest)
RECURSIVE ByFreq(_, _, _)
ByFreq(seq, fr, f) ==
    IF \A x \in DOMAIN fr : fr[x] < f THEN <<>>
    ELSE SelectSeq(seq, LAMBDA x : fr[x] = f) \o ByFreq(seq, fr, f + 1)

ErrNone == "nil"
ErrInvalidMaxSize == "ErrInvalidMaxSize"

(***************************************************************************)
(* History: the documented scenarios, as the calls made since construction *)
(***************************************************************************)
\* TestLRUCache_LRUOrder (capacity 3; also run at capacity 2): Set A, B, C; Get A; Set D
ScriptLRU == <<<<"Set", KeyA>>, <<"Set", KeyB>>, <<"Set", KeyC>>, <<"Get", KeyA>>,
               <<"Set", KeyD>>>>
\* TestLFUCache_Eviction at capacity 3: Set A, B, C; Get A three times; Get B; Set D
ScriptLFUEvict == <<<<"Set", KeyA>>, <<"Set", KeyB>>, <<"Set", KeyC>>, <<"Get", KeyA>>,
                    <<"Get", KeyA>>, <<"Get", KeyA>>, <<"Get", KeyB>>, <<"Set", KeyD>>>>
\* TestLFUCache_Resize at capacity 4: Set A, B, C, D; Get A twice; Get B; Resize 2;
\* then one more shrink, Resize 1
ScriptLFUResize == <<<<"Set", KeyA>>, <<"Set", KeyB>>, <<"Set", KeyC>>, <<"Set", KeyD>>,
                     <<"Get", KeyA>>, <<"Get", KeyA>>, <<"Get", KeyB>>, <<"Resize", 2>>,
                     <<"Resize", 1>>>>

Scenario(name) ==
    IF name \in {"LRUOrder2", "LRUOrder3"} THEN ScriptLRU
    ELSE IF name = "LFUEviction" THEN ScriptLFUEvict
    ELSE IF name = "LFUResize" THEN ScriptLFUResize
    ELSE <<>>

\* the scenario that starts with an engine of this policy and capacity
ScenarioOf(pol, cap) ==
    IF pol = "LRU" /\ cap = 2 THEN "LRUOrder2"
    ELSE IF pol = "LRU" /\ cap = 3 THEN "LRUOrder3"
    ELSE IF pol = "LFU" /\ cap = 3 THEN "LFUEviction"
    ELSE IF pol = "LFU" /\ cap = 4 THEN "LFUResize"
    ELSE "none"

\* the call <<name, argument>> extends the scenario, or leaves it for good
Advance(call) ==
    IF step[2] < Len(Scenario(step[1])) /\ Scenario(step[1])[step[2] + 1] = call
    THEN <<step[1], step[2] + 1>>
    ELSE <<"none", 0>>

(***************************************************************************)
(* The engine as a record of its fields; err is what the call returns,     *)
(* held the nodes that calls in flight still point to                      *)
(***************************************************************************)
Threads == 1..NumThreads
Idle == [pc |-> "idle", key |-> Nil, node |-> Nil, value |-> Nil]

\* the nodes the calls in flight hold in a local variable
HeldBy(p) == {p[t].node : t \in {u \in Threads : p[u].pc # "idle"}}
HeldNodes == HeldBy(pending)

Engine ==
    [policy |-> policy, maxSize |-> maxSize, data |-> data, cache |-> cache,
     size |-> size, heap |-> heap, freqMap |-> freqMap, minFreq |-> minFreq,
     fault |-> fault, err |-> ErrNone, held |-> HeldNodes]

(***************************************************************************)
(* DefCache (src/def.go)                                                   *)
(***************************************************************************)
\* variant of Def_Set: the capacity is checked before the key is looked up
Def_Set_fullFirst(e, key, value) ==
    IF Cardinality(DOMAIN e.data) >= e.maxSize THEN e
    ELSE [e EXCEPT !.data = MapPut(e.data, key, value)]

Def_Set(e, key, value) ==
    IF key \in DOMAIN e.data THEN [e EXCEPT !.data = MapPut(e.data, key, value)]
    ELSE IF Cardinality(DOMAIN e.data) >= e.maxSize THEN e
    ELSE [e EXCEPT !.data = MapPut(e.data, key, value)]

Def_GetResult(e, key) ==
    IF key \in DOMAIN e.data THEN <<e.data[key], TRUE>> ELSE <<Nil, FALSE>>

Def_Delete(e, key) == [e EXCEPT !.data = MapDel(e.data, key)]

Def_Clear(e) == [e EXCEPT !.data = EmptyMap]

Def_Size(e) == Cardinality(DOMAIN e.data)

\* variant of Def_Resize: a shrink that keeps only the newSize smallest keys
Def_Resize_evicting(e, newSize) ==
    IF newSize <= 0 THEN [e EXCEPT !.err = ErrInvalidMaxSize]
    ELSE [e EXCEPT !.maxSize = newSize,
                   !.data = [k \in {x \in DOMAIN e.data :
                                      Cardinality({y \in DOMAIN e.data : y < x}) < newSize}
                             |-> e.data[k]]]

Def_Resize(e, newSize) ==
    IF newSize <= 0 THEN [e EXCEPT !.err = ErrInvalidMaxSize]
    ELSE [e EXCEPT !.maxSize = newSize]

(***************************************************************************)
(* LRUCache (src/lru.go)                                                   *)
(***************************************************************************)
LRUNode(key, value) == [key |-> key, value |-> value, prev |-> Nil, next |-> Nil]

\* NewLRUCache: two sentinels linked to each other
LRUInitHeap ==
    (LruHead :> [key |-> Nil, value |-> Nil, prev |-> Nil, next |-> LruTail]) @@
    (LruTail :> [key |-> Nil, value |-> Nil, prev |-> LruHead, next |-> Nil])

LRU_addNode(h, node) ==
    LET h1 == [h EXCEPT ![node].prev = LruHead]
        h2 == [h1 EXCEPT ![node].next = h1[LruHead].next]
        h3 == [h2 EXCEPT ![h2[LruHead].next].prev = node]
    IN  [h3 EXCEPT ![LruHead].next = node]

LRU_removeNode(h, node) ==
    LET h1 == [h EXCEPT ![h[node].prev].next = h[node].next]
    IN  [h1 EXCEPT ![h1[node].next].prev = h1[node].prev]

LRU_moveToHead(h, node) == LRU_addNode(LRU_removeNode(h, node), node)

\* variant of LRU_lastNode: the node next to the head sentinel
LRU_lastNode_newest(h) == h[LruHead].next

\* the node popTail unlinks and returns
LRU_lastNode(h) == h[LruTail].prev

LRU_popTail(h) == LRU_removeNode(h, LRU_lastNode(h))

\* the eviction body shared by Set and Resize:
\* tail := popTail(); delete(cache, tail.key); size--
\* removeNode(lastNode) reads lastNode.prev.next and lastNode.next.prev: it panics
\* when lastNode is a sentinel
LRU_evictOne(e) ==
    LET tail == LRU_lastNode(e.heap)
    IN  IF e.heap[tail].prev = Nil \/ e.heap[tail].next = Nil
        THEN [e EXCEPT !.fault = TRUE]
        ELSE [e EXCEPT !.heap = LRU_popTail(e.heap),
                       !.cache = MapDel(e.cache, e.heap[tail].key),
                       !.size = e.size - 1]

LRU_Set(e, key, value) ==
    IF key \notin DOMAIN e.cache
    THEN LET newNode == NewNode(key)
             e1 == [e EXCEPT !.cache = MapPut(e.cache, key, newNode),
                             !.heap = LRU_addNode((newNode :> LRUNode(key, value)) @@ e.heap,
                                                  newNode),
                             !.size = e.size + 1]
         IN  IF e1.size > e1.maxSize THEN LRU_evictOne(e1) ELSE e1
    ELSE LET node == e.cache[key]
         IN  [e EXCEPT !.heap = LRU_moveToHead([e.heap EXCEPT ![node].value = value], node)]

\* variant of LRU_Get: a hit that does not promote the node
LRU_Get_noPromote(e, key) == e

LRU_Get(e, key) ==
    IF key \in DOMAIN e.cache
    THEN [e EXCEPT !.heap = LRU_moveToHead(e.heap, e.cache[key])]
    ELSE e

LRU_GetResult(e, key) ==
    IF key \in DOMAIN e.cache THEN <<e.heap[e.cache[key]].value, TRUE>> ELSE <<Nil, FALSE>>

\* variant of LRU_Delete: the node is unlinked and the size is not counted down
LRU_Delete_keepSize(e, key) ==
    IF key \in DOMAIN e.cache
    THEN [e EXCEPT !.heap = LRU_removeNode(e.heap, e.cache[key]),
                   !.cache = MapDel(e.cache, key)]
    ELSE e

LRU_Delete(e, key) ==
    IF key \in DOMAIN e.cache
    THEN [e EXCEPT !.heap = LRU_removeNode(e.heap, e.cache[key]),
                   !.cache = MapDel(e.cache, key),
                   !.size = e.size - 1]
    ELSE e

LRU_Clear(e) ==
    [e EXCEPT !.cache = EmptyMap,
              !.size = 0,
              !.heap = [[e.heap EXCEPT ![LruHead].next = LruTail]
                           EXCEPT ![LruTail].prev = LruHead]]

LRU_Size(e) == e.size

\* variant of LRU_evictLoop: an if in place of the for
LRU_evictLoop_once(e) == IF e.size > e.maxSize /\ ~e.fault THEN LRU_evictOne(e) ELSE e

RECURSIVE LRU_evictLoop(_)
LRU_evictLoop(e) ==
    IF e.size > e.maxSize /\ ~e.fault THEN LRU_evictLoop(LRU_evictOne(e)) ELSE e

\* variant of LRU_Resize: only a negative size is refused
LRU_Resize_zero(e, newSize) ==
    IF newSize < 0 THEN [e EXCEPT !.err = ErrInvalidMaxSize]
    ELSE LRU_evictLoop([e EXCEPT !.maxSize = newSize])

\* variant of LRU_Resize: the capacity is stored and no key is put out
LRU_Resize_noEvict(e, newSize) ==
    IF newSize <= 0 THEN [e EXCEPT !.err = ErrInvalidMaxSize]
    ELSE [e EXCEPT !.maxSize = newSize]

LRU_Resize(e, newSize) ==
    IF newSize <= 0 THEN [e EXCEPT !.err = ErrInvalidMaxSize]
    ELSE LRU_evictLoop([e EXCEPT !.maxSize = newSize])

(***************************************************************************)
(* LFUCache (src/unnamed/part_000, second file)                            *)
(* fault is set where the Go code dereferences a nil pointer; nothing of   *)
(* the call runs after the panic.                                          *)
(***************************************************************************)
LFUNode(key, value) == [key |-> key, value |-> value, freq |-> 1, prev |-> Nil, next |-> Nil]

LFUBucket(addr) == [key |-> Nil, value |-> Nil, freq |-> 0, prev |-> addr, next |-> addr]

LFU_addNode(e, node, freq) ==
    LET e0 == IF MapGet(e.freqMap, freq) = Nil
              THEN [e EXCEPT !.freqMap = MapPut(e.freqMap, freq, BucketAddr(freq)),
                             !.heap = (BucketAddr(freq) :> LFUBucket(BucketAddr(freq))) @@ e.heap]
              ELSE e
        head == e0.freqMap[freq]
        h1 == [e0.heap EXCEPT ![node].next = e0.heap[head].next]
        h2 == [h1 EXCEPT ![node].prev = head]
        h3 == [h2 EXCEPT ![h2[head].next].prev = node]
        h4 == [h3 EXCEPT ![head].next = node]
    IN  [e0 EXCEPT !.heap = h4]

LFU_removeNode(h, node) ==
    LET h1 == [h EXCEPT ![h[node].prev].next = h[node].next]
    IN  [h1 EXCEPT ![h1[node].next].prev = h1[node].prev]

\* freqMap[freq].next == freqMap[freq]: the bucket has no node left
LFU_bucketEmpty(e, freq) == e.heap[e.freqMap[freq]].next = e.freqMap[freq]

\* variant of LFU_updateFreq: the bucket the node leaves stays in freqMap
LFU_updateFreq_keepBucket(e, node) ==
    LET freq == e.heap[node].freq
        e1 == [e EXCEPT !.heap = LFU_removeNode(e.heap, node)]
    IN  IF MapGet(e1.freqMap, freq) = Nil
        THEN [e1 EXCEPT !.fault = TRUE]
        ELSE LET e3 == [e1 EXCEPT !.heap[node].freq = e1.heap[node].freq + 1]
             IN  LFU_addNode(e3, node, e3.heap[node].freq)

LFU_updateFreq(e, node) ==
    LET freq == e.heap[node].freq
        e1 == [e EXCEPT !.heap = LFU_removeNode(e.heap, node)]
    IN  IF MapGet(e1.freqMap, freq) = Nil
        THEN [e1 EXCEPT !.fault = TRUE]
        ELSE LET e2 == IF LFU_bucketEmpty(e1, freq)
                       THEN [e1 EXCEPT !.freqMap = MapDel(e1.freqMap, freq),
                                       !.minFreq = IF e1.minFreq = freq
                                                   THEN e1.minFreq + 1 ELSE e1.minFreq]
                       ELSE e1
                 e3 == [e2 EXCEPT !.heap[node].freq = e2.heap[node].freq + 1]
             IN  LFU_addNode(e3, node, e3.heap[node].freq)

\* variant of LFU_lastNode: the head of the minFreq bucket
LFU_lastNode_newest(e) ==
    IF MapGet(e.freqMap, e.minFreq) = Nil THEN Nil ELSE e.heap[e.freqMap[e.minFreq]].next

\* the node removeLFU returns: the tail of the minFreq bucket (Nil: reading it panics)
LFU_lastNode(e) ==
    IF MapGet(e.freqMap, e.minFreq) = Nil THEN Nil ELSE e.heap[e.freqMap[e.minFreq]].prev

LFU_removeLFU(e) ==
    IF MapGet(e.freqMap, e.minFreq) = Nil
    THEN [e EXCEPT !.fault = TRUE]
    ELSE LET e1 == [e EXCEPT !.heap = LFU_removeNode(e.heap, LFU_lastNode(e))]
         IN  IF LFU_bucketEmpty(e1, e1.minFreq)
             THEN [e1 EXCEPT !.freqMap = MapDel(e1.freqMap, e1.minFreq)]
             ELSE e1

\* the eviction body shared by Set and Resize:
\* lru := removeLFU(); delete(cache, lru.key); size--
LFU_evictOne(e) ==
    LET lru == LFU_lastNode(e)
        e1 == LFU_removeLFU(e)
    IN  IF e1.fault THEN e1
        ELSE [e1 EXCEPT !.cache = MapDel(e1.cache, e.heap[lru].key), !.size = e1.size - 1]

\* Set, the branch of a key the map does not hold
LFU_insert(e, key, value) ==
    LET newNode == NewNode(key)
        e1 == [e EXCEPT !.cache = MapPut(e.cache, key, newNode),
                        !.heap = (newNode :> LFUNode(key, value)) @@ e.heap]
        e2 == LFU_addNode(e1, newNode, 1)
        e3 == [e2 EXCEPT !.size = e2.size + 1, !.minFreq = 1]
    IN  IF e3.size > e3.maxSize THEN LFU_evictOne(e3) ELSE e3

\* variant of LFU_Set: every key is stored as a new one
LFU_Set_asNew(e, key, value) == LFU_insert(e, key, value)

LFU_Set(e, key, value) ==
    IF key \notin DOMAIN e.cache
    THEN LFU_insert(e, key, value)
    ELSE LET node == e.cache[key]
         IN  LFU_updateFreq([e EXCEPT !.heap[node].value = value], node)

\* variant of LFU_Get: a miss resets minFreq
LFU_Get_missResets(e, key) ==
    IF key \in DOMAIN e.cache THEN LFU_updateFreq(e, e.cache[key])
    ELSE [e EXCEPT !.minFreq = 0]

LFU_Get(e, key) ==
    IF key \in DOMAIN e.cache THEN LFU_updateFreq(e, e.cache[key]) ELSE e

LFU_GetResult(e, key) ==
    IF key \in DOMAIN e.cache THEN <<e.heap[e.cache[key]].value, TRUE>> ELSE <<Nil, FALSE>>

\* minFreq = 1; for freq := range freqMap { if freq < minFreq { minFreq = freq } }
LFU_scanMin(fm) ==
    CHOOSE m \in {1} \cup DOMAIN fm : \A f \in {1} \cup DOMAIN fm : m <= f

LFU_Delete(e, key) ==
    IF key \notin DOMAIN e.cache THEN e
    ELSE LET node == e.cache[key]
             freq == e.heap[node].freq
             e1 == [e EXCEPT !.heap = LFU_removeNode(e.heap, node),
                             !.cache = MapDel(e.cache, key),
                             !.size = e.size - 1]
         IN  IF MapGet(e1.freqMap, freq) = Nil
             THEN [e1 EXCEPT !.fault = TRUE]
             ELSE IF LFU_bucketEmpty(e1, freq)
             THEN [e1 EXCEPT !.freqMap = MapDel(e1.freqMap, freq),
                             !.minFreq = IF e1.minFreq = freq /\ e1.size > 0
                                         THEN LFU_scanMin(MapDel(e1.freqMap, freq))
                                         ELSE e1.minFreq]
             ELSE e1

\* variant of LFU_Clear: the buckets of freqMap are kept
LFU_Clear_keepFreqMap(e) ==
    [e EXCEPT !.cache = EmptyMap, !.size = 0, !.minFreq = 0]

LFU_Clear(e) ==
    [e EXCEPT !.cache = EmptyMap, !.freqMap = EmptyMap, !.size = 0, !.minFreq = 0]

LFU_Size(e) == e.size

RECURSIVE LFU_evictLoop(_)
LFU_evictLoop(e) ==
    IF e.fault \/ ~(e.size > e.maxSize) THEN e ELSE LFU_evictLoop(LFU_evictOne(e))

LFU_Resize(e, newSize) ==
    IF newSize <= 0 THEN [e EXCEPT !.err = ErrInvalidMaxSize]
    ELSE LFU_evictLoop([e EXCEPT !.maxSize = newSize])

(***************************************************************************)
(* The LittleCache interface: the method of the engine's dynamic type      *)
(***************************************************************************)
Roots(e) ==
    e.held \cup (IF e.policy = "LRU" THEN {LruHead, LruTail} \cup Range(e.cache)
                 ELSE Range(e.cache) \cup Range(e.freqMap))

\* the call has returned: its locals are dead, unreferenced nodes are collected
Returned(e) == [e EXCEPT !.heap = Collect(e.heap, Roots(e))]

EngSet(e, key, value) ==
    Returned(CASE e.policy = "NoEviction" -> Def_Set(e, key, value)
               [] e.policy = "LRU" -> LRU_Set(e, key, value)
               [] e.policy = "LFU" -> LFU_Set(e, key, value))

EngGet(e, key) ==
    Returned(CASE e.policy = "NoEviction" -> e
               [] e.policy = "LRU" -> LRU_Get(e, key)
               [] e.policy = "LFU" -> LFU_Get(e, key))

EngGetResult(e, key) ==
    CASE e.policy = "NoEviction" -> Def_GetResult(e, key)
      [] e.policy = "LRU" -> LRU_GetResult(e, key)
      [] e.policy = "LFU" -> LFU_GetResult(e, key)

EngDelete(e, key) ==
    Returned(CASE e.policy = "NoEviction" -> Def_Delete(e, key)
               [] e.policy = "LRU" -> LRU_Delete(e, key)
               [] e.policy = "LFU" -> LFU_Delete(e, key))

EngClear(e) ==
    Returned(CASE e.policy = "NoEviction" -> Def_Clear(e)
               [] e.policy = "LRU" -> LRU_Clear(e)
               [] e.policy = "LFU" -> LFU_Clear(e))

EngSize(e) ==
    CASE e.policy = "NoEviction" -> Def_Size(e)
      [] e.policy = "LRU" -> LRU_Size(e)
      [] e.policy = "LFU" -> LFU_Size(e)

EngResize(e, newSize) ==
    Returned(CASE e.policy = "NoEviction" -> Def_Resize(e, newSize)
               [] e.policy = "LRU" -> LRU_Resize(e, newSize)
               [] e.policy = "LFU" -> LFU_Resize(e, newSize))

\* what the caller of Resize gets: the error returned, or the panic
ResizeErr(e1) == IF e1.fault THEN "panic" ELSE e1.err

\* the keys Get finds
EngKeys(e) == IF e.policy = "NoEviction" THEN DOMAIN e.data ELSE DOMAIN e.cache

\* the frequency counter of each present key
FreqOf(e) == [k \in DOMAIN e.cache |-> e.heap[e.cache[k]].freq]

Install(e) ==
    /\ policy' = e.policy
    /\ maxSize' = e.maxSize
    /\ data' = e.data
    /\ cache' = e.cache
    /\ size' = e.size
    /\ heap' = e.heap
    /\ freqMap' = e.freqMap
    /\ minFreq' = e.minFreq
    /\ fault' = e.fault

\* history: the keys held before the call, and the key it was asked to store, that
\* the engine does not hold after it
Evicted(e0, asked, e1) == (EngKeys(e0) \cup asked) \ EngKeys(e1)

\* history: the order of last touch of the keys the engine holds after the call
Recency(seq, e1) ==
    IF e1.policy = "NoEviction" THEN <<>>
    ELSE IF e1.policy = "LRU" THEN Present(seq, DOMAIN e1.cache)
    ELSE ByFreq(Present(seq, DOMAIN e1.cache), FreqOf(e1), 1)

(***************************************************************************)
(* Calls made on the engine itself                                         *)
(***************************************************************************)
Set(pol, key, value) ==
    /\ policy = pol /\ ~wrapped /\ ~fault
    /\ LET e1 == EngSet(Engine, key, value)
       IN  /\ Install(e1)
           /\ recency' = Recency(Touch(recency, key), e1)
           /\ last' = <<"Set", key, value, key \in EngKeys(Engine),
                        Evicted(Engine, {key}, e1)>>
    /\ step' = Advance(<<"Set", key>>)
    /\ UNCHANGED <<ttlVars, pending>>

Get(pol, key) ==
    /\ policy = pol /\ ~wrapped /\ ~fault
    /\ LET e1 == EngGet(Engine, key)
       IN  /\ Install(e1)
           /\ recency' = Recency(IF key \in EngKeys(Engine) THEN Touch(recency, key)
                                 ELSE recency, e1)
    /\ last' = <<"Get", key>> \o EngGetResult(Engine, key)
    /\ step' = Advance(<<"Get", key>>)
    /\ UNCHANGED <<ttlVars, pending>>

Delete(pol, key) ==
    /\ policy = pol /\ ~wrapped /\ ~fault
    /\ LET e1 == EngDelete(Engine, key)
       IN  /\ Install(e1)
           /\ recency' = Recency(recency, e1)
    /\ last' = <<"Delete", key, key \in EngKeys(Engine)>>
    /\ step' = Advance(<<"Delete", key>>)
    /\ UNCHANGED <<ttlVars, pending>>

Clear(pol) ==
    /\ policy = pol /\ ~wrapped /\ ~fault
    /\ LET e1 == EngClear(Engine)
       IN  /\ Install(e1)
           /\ recency' = Recency(recency, e1)
    /\ last' = <<"Clear">>
    /\ step' = Advance(<<"Clear">>)
    /\ UNCHANGED <<ttlVars, pending>>

Resize(pol, newSize) ==
    /\ policy = pol /\ ~wrapped /\ ~fault
    /\ LET e1 == EngResize(Engine, newSize)
       IN  /\ Install(e1)
           /\ recency' = Recency(recency, e1)
           /\ last' = <<"Resize", newSize, ResizeErr(e1),
                        Evicted(Engine, {}, e1)>>
    /\ step' = Advance(<<"Resize", newSize>>)
    /\ UNCHANGED <<ttlVars, pending>>

DefSet(key, value) == Set("NoEviction", key, value)
DefGet(key) == Get("NoEviction", key)
DefDelete(key) == Delete("NoEviction", key)
DefClear == Clear("NoEviction")
DefResize(newSize) == Resize("NoEviction", newSize)

LRUSet(key, value) == Set("LRU", key, value)
LRUGet(key) == Get("LRU", key)
LRUDelete(key) == Delete("LRU", key)
LRUClear == Clear("LRU")
LRUResize(newSize) == Resize("LRU", newSize)

\* bound of the model: a frequency counter stops at bound
FreqBelowBound(key, bound) ==
    (policy = "LFU" /\ key \in DOMAIN cache) => heap[cache[key]].freq < bound

LFUSet(key, value) == Set("LFU", key, value)
LFUGet(key) == Get("LFU", key)
LFUDelete(key) == Delete("LFU", key)
LFUClear == Clear("LFU")
LFUResize(newSize) == Resize("LFU", newSize)

(***************************************************************************)
(* The engine under test and its callers                                   *)
(***************************************************************************)
Policies == {"NoEviction", "LRU", "LFU"}

\* the state NewDefCache / NewLRUCache / NewLFUCache return for a valid config
NewEngine(pol, max) ==
    /\ policy = pol
    /\ maxSize = max
    /\ data = EmptyMap
    /\ cache = EmptyMap
    /\ size = 0
    /\ heap = IF pol = "LRU" THEN LRUInitHeap ELSE EmptyMap
    /\ freqMap = EmptyMap
    /\ minFreq = 0
    /\ fault = FALSE
    /\ pending = [t \in Threads |-> Idle]
    /\ last = <<"New">>
    /\ recency = <<>>
    /\ step = <<ScenarioOf(pol, max), 0>>

NotWrapped ==
    /\ wrapped = FALSE
    /\ ttlEntries = EmptyMap
    /\ now = 0
    /\ sweeper = "none"
    /\ stopCleanup = 0
    /\ tickerC = 0

Init == \E pol \in Policies, max \in Caps : NewEngine(pol, max) /\ NotWrapped

Next ==
    \/ \E key \in Keys, value \in Vals : DefSet(key, value)
    \/ \E key \in Keys : DefGet(key)
    \/ \E key \in Keys : DefDelete(key)
    \/ DefClear
    \/ \E newSize \in ResizeArgs : DefResize(newSize)
    \/ \E key \in Keys, value \in Vals : LRUSet(key, value)
    \/ \E key \in Keys : LRUGet(key)
    \/ \E key \in Keys : LRUDelete(key)
    \/ LRUClear
    \/ \E newSize \in ResizeArgs : LRUResize(newSize)
    \/ \E key \in Keys, value \in Vals : FreqBelowBound(key, MaxFreq) /\ LFUSet(key, value)
    \/ \E key \in Keys : FreqBelowBound(key, MaxFreq) /\ LFUGet(key)
    \/ \E key \in Keys : LFUDelete(key)
    \/ LFUClear
    \/ \E newSize \in ResizeArgs : LFUResize(newSize)

Spec == Init /\ [][Next]_vars

(***************************************************************************)
(* Config.Validate and the constructors (src/littlecache.go, src/def.go,   *)
(* src/lru.go, the LFU file).  A constructor returns <<cache, err>>; the    *)
(* caller holds one cache at a time, NilCache before a constructor has      *)
(* succeeded                                                                *)
(***************************************************************************)
\* type EvictionPolicy int, const ( NoEviction = iota; LRU; LFU )
NoEviction == 0
LRU == 1
LFU == 2
ErrInvalidEvictionPolicy == "ErrInvalidEvictionPolicy"

\* the selectors and capacities a Config is built with
Selectors == (NoEviction - 1)..(LFU + 1)
ConfigSizes == (-1)..MaxCap

Validate(sel, max) ==
    IF max <= 0 THEN ErrInvalidMaxSize
    ELSE IF sel < NoEviction \/ sel > LFU THEN ErrInvalidEvictionPolicy
    ELSE ErrNone

\* the fields of a cache that has just been made
NewCache(pol, max) ==
    [policy |-> pol, maxSize |-> max, data |-> EmptyMap, cache |-> EmptyMap,
     size |-> 0, heap |-> IF pol = "LRU" THEN LRUInitHeap ELSE EmptyMap,
     freqMap |-> EmptyMap, minFreq |-> 0, fault |-> FALSE, err |-> ErrNone,
     held |-> {}]

\* the nil interface value
NilCache == NewCache("none", 0)

NewDefCache(sel, max) ==
    IF Validate(sel, max) # ErrNone THEN <<NilCache, Validate(sel, max)>>
    ELSE <<NewCache("NoEviction", max), ErrNone>>

NewLRUCache(sel, max) ==
    IF Validate(sel, max) # ErrNone THEN <<NilCache, Validate(sel, max)>>
    ELSE <<NewCache("LRU", max), ErrNone>>

NewLFUCache(sel, max) ==
    IF Validate(sel, max) # ErrNone THEN <<NilCache, Validate(sel, max)>>
    ELSE <<NewCache("LFU", max), ErrNone>>

\* variant of NewLittleCache: the selector NoEviction makes a DefCache
NewLittleCache_withDef(sel, max) ==
    IF Validate(sel, max) # ErrNone THEN <<NilCache, Validate(sel, max)>>
    ELSE CASE sel = NoEviction -> NewDefCache(sel, max)
           [] sel = LRU -> NewLRUCache(sel, max)
           [] sel = LFU -> NewLFUCache(sel, max)
           [] OTHER -> <<NilCache, ErrInvalidEvictionPolicy>>

NewLittleCache(sel, max) ==
    IF Validate(sel, max) # ErrNone THEN <<NilCache, Validate(sel, max)>>
    ELSE CASE sel = LRU -> NewLRUCache(sel, max)
           [] sel = LFU -> NewLFUCache(sel, max)
           [] OTHER -> <<NilCache, ErrInvalidEvictionPolicy>>

\* the caller keeps what the constructor returned
Construct(name, sel, max, result) ==
    /\ policy = NilCache.policy /\ ~wrapped
    /\ Install(result[1])
    /\ last' = <<name, sel, max, result[2]>>
    /\ recency' = <<>>
    /\ step' = <<ScenarioOf(result[1].policy, max), 0>>
    /\ UNCHANGED <<ttlVars, pending>>

CallNewLittleCache(sel, max) ==
    Construct("NewLittleCache", sel, max, NewLittleCache(sel, max))

CallNewDefCache(sel, max) ==
    Construct("NewDefCache", sel, max, NewDefCache(sel, max))

InitConstruct ==
    /\ policy = NilCache.policy
    /\ maxSize = NilCache.maxSize
    /\ data = NilCache.data
    /\ cache = NilCache.cache
    /\ size = NilCache.size
    /\ heap = NilCache.heap
    /\ freqMap = NilCache.freqMap
    /\ minFreq = NilCache.minFreq
    /\ fault = NilCache.fault
    /\ pending = [t \in Threads |-> Idle]
    /\ last = <<"none">>
    /\ recency = <<>>
    /\ step = <<"none", 0>>
    /\ NotWrapped

NextConstruct ==
    \/ \E sel \in Selectors, max \in ConfigSizes : CallNewLittleCache(sel, max)
    \/ \E sel \in Selectors, max \in ConfigSizes : CallNewDefCache(sel, max)
    \/ Next

SpecConstruct == InitConstruct /\ [][NextConstruct]_vars

(***************************************************************************)
(* The LRU and LFU engines at the scale of the repository's tests: the     *)
(* keys A..D and one value (the order of eviction does not depend on the   *)
(* values stored)                                                          *)
(***************************************************************************)
TestVals == {1}

InitTests ==
    \E pol \in {"LRU", "LFU"}, max \in 1..TestMaxCap : NewEngine(pol, max) /\ NotWrapped

NextTests ==
    \/ \E key \in TestKeys, value \in TestVals : LRUSet(key, value)
    \/ \E key \in TestKeys : LRUGet(key)
    \/ \E key \in TestKeys : LRUDelete(key)
    \/ LRUClear
    \/ \E newSize \in 0..TestMaxCap : LRUResize(newSize)
    \/ \E key \in TestKeys, value \in TestVals :
          FreqBelowBound(key, TestMaxFreq) /\ LFUSet(key, value)
    \/ \E key \in TestKeys : FreqBelowBound(key, TestMaxFreq) /\ LFUGet(key)
    \/ \E key \in TestKeys : LFUDelete(key)
    \/ LFUClear
    \/ \E newSize \in 0..TestMaxCap : LFUResize(newSize)

SpecTests == InitTests /\ [][NextTests]_vars

(***************************************************************************)
(* TTLCache (src/unnamed/part_002): the decorator owns the engine and      *)
(* keeps one TTLEntry per key it was asked to set.  Time is counted in     *)
(* ticks.                                                                  *)
(***************************************************************************)
Min(a, b) == IF a <= b THEN a ELSE b

TTLKeys == 1..NumTTLKeys
TTLs == 1..MaxTTL

TTLEntry(value, expiresAt) == [Value |-> value, ExpiresAt |-> expiresAt]

\* time.Now().After(e.ExpiresAt)
IsExpired(entry, t) == t > entry.ExpiresAt

NewTTLCache ==
    /\ wrapped = TRUE
    /\ ttlEntries = EmptyMap
    /\ now = 0
    /\ sweeper = "select"
    /\ stopCleanup = 0
    /\ tickerC = 0

\* every order in which a range over a map may visit the keys of S
Orders(S) ==
    {seq \in [1..Cardinality(S) -> S] : \A i, j \in 1..Cardinality(S) : seq[i] = seq[j] => i = j}

RECURSIVE DeleteEach(_, _)
DeleteEach(e, seq) ==
    IF seq = <<>> THEN e ELSE DeleteEach(EngDelete(e, Head(seq)), Tail(seq))

\* SetWithTTL that keeps the deadline of a record the key already has
TTLSetWithTTL_keepOld(key, value, ttl) ==
    /\ wrapped /\ ~fault
    /\ ttlEntries' = MapPut(ttlEntries, key,
                            TTLEntry(value, IF key \in DOMAIN ttlEntries
                                            THEN ttlEntries[key].ExpiresAt ELSE now + ttl))
    /\ LET e1 == EngSet(Engine, key, value)
       IN  /\ Install(e1)
           /\ recency' = Recency(Touch(recency, key), e1)
           /\ last' = <<"Set", key, value, key \in EngKeys(Engine),
                        Evicted(Engine, {key}, e1), ttl>>
    /\ step' = Advance(<<"Set", key>>)
    /\ UNCHANGED <<wrapped, sweepVars, pending, now>>

TTLSetWithTTL(key, value, ttl) ==
    /\ wrapped /\ ~fault
    /\ ttlEntries' = MapPut(ttlEntries, key, TTLEntry(value, now + ttl))
    /\ LET e1 == EngSet(Engine, key, value)
       IN  /\ Install(e1)
           /\ recency' = Recency(Touch(recency, key), e1)
           /\ last' = <<"Set", key, value, key \in EngKeys(Engine),
                        Evicted(Engine, {key}, e1), ttl>>
    /\ step' = Advance(<<"Set", key>>)
    /\ UNCHANGED <<wrapped, sweepVars, pending, now>>

TTLSet(key, value) == TTLSetWithTTL(key, value, DefaultTTL)

\* Delete that removes the TTL record and leaves the wrapped entry
TTLDelete_recordOnly(key) ==
    /\ wrapped /\ ~fault
    /\ ttlEntries' = MapDel(ttlEntries, key)
    /\ last' = <<"Delete", key, key \in EngKeys(Engine)>>
    /\ step' = Advance(<<"Delete", key>>)
    /\ UNCHANGED <<engineVars, wrapped, sweepVars, pending, now, recency>>

TTLDelete(key) ==
    /\ wrapped /\ ~fault
    /\ ttlEntries' = MapDel(ttlEntries, key)
    /\ LET e1 == EngDelete(Engine, key)
       IN  /\ Install(e1)
           /\ recency' = Recency(recency, e1)
    /\ last' = <<"Delete", key, key \in EngKeys(Engine)>>
    /\ step' = Advance(<<"Delete", key>>)
    /\ UNCHANGED <<wrapped, sweepVars, pending, now>>

\* Get that drops an expired record and leaves the wrapped entry
TTLGet_keepWrapped(key) ==
    /\ wrapped /\ ~fault
    /\ IF key \notin DOMAIN ttlEntries
       THEN /\ UNCHANGED <<engineVars, ttlEntries, recency>>
            /\ last' = <<"Get", key, Nil, FALSE>>
       ELSE IF IsExpired(ttlEntries[key], now)
       THEN /\ ttlEntries' = MapDel(ttlEntries, key)
            /\ UNCHANGED <<engineVars, recency>>
            /\ last' = <<"Get", key, Nil, FALSE, "expired">>
       ELSE /\ LET e1 == EngGet(Engine, key)
               IN  /\ Install(e1)
                   /\ recency' = Recency(IF key \in EngKeys(Engine)
                                         THEN Touch(recency, key) ELSE recency, e1)
            /\ last' = <<"Get", key>> \o EngGetResult(Engine, key)
            /\ UNCHANGED ttlEntries
    /\ step' = Advance(<<"Get", key>>)
    /\ UNCHANGED <<wrapped, sweepVars, pending, now>>

\* Get that reads the value of an unexpired key without calling the engine's Get
TTLGet_peek(key) ==
    /\ wrapped /\ ~fault
    /\ IF key \notin DOMAIN ttlEntries
       THEN /\ UNCHANGED <<engineVars, ttlEntries, recency>>
            /\ last' = <<"Get", key, Nil, FALSE>>
       ELSE IF IsExpired(ttlEntries[key], now)
       THEN /\ ttlEntries' = MapDel(ttlEntries, key)
            /\ LET e1 == EngDelete(Engine, key)
               IN  /\ Install(e1)
                   /\ recency' = Recency(recency, e1)
            /\ last' = <<"Get", key, Nil, FALSE, "expired">>
       ELSE /\ last' = <<"Get", key>> \o EngGetResult(Engine, key)
            /\ UNCHANGED <<engineVars, ttlEntries, recency>>
    /\ step' = Advance(<<"Get", key>>)
    /\ UNCHANGED <<wrapped, sweepVars, pending, now>>

TTLGet(key) ==
    /\ wrapped /\ ~fault
    /\ IF key \notin DOMAIN ttlEntries
       THEN /\ UNCHANGED <<engineVars, ttlEntries, recency>>
            /\ last' = <<"Get", key, Nil, FALSE>>
       ELSE IF IsExpired(ttlEntries[key], now)
       THEN /\ ttlEntries' = MapDel(ttlEntries, key)
            /\ LET e1 == EngDelete(Engine, key)
               IN  /\ Install(e1)
                   /\ recency' = Recency(recency, e1)
            /\ last' = <<"Get", key, Nil, FALSE, "expired">>
       ELSE /\ LET e1 == EngGet(Engine, key)
               IN  /\ Install(e1)
                   /\ recency' = Recency(IF key \in EngKeys(Engine)
                                         THEN Touch(recency, key) ELSE recency, e1)
            /\ last' = <<"Get", key>> \o EngGetResult(Engine, key)
            /\ UNCHANGED ttlEntries
    /\ step' = Advance(<<"Get", key>>)
    /\ UNCHANGED <<wrapped, sweepVars, pending, now>>

\* Clear that resets the TTL map and leaves the wrapped engine as it is
TTLClear_recordsOnly ==
    /\ wrapped /\ ~fault
    /\ ttlEntries' = EmptyMap
    /\ last' = <<"Clear">>
    /\ step' = Advance(<<"Clear">>)
    /\ UNCHANGED <<engineVars, wrapped, sweepVars, pending, now, recency>>

TTLClear ==
    /\ wrapped /\ ~fault
    /\ ttlEntries' = EmptyMap
    /\ LET e1 == EngClear(Engine)
       IN  /\ Install(e1)
           /\ recency' = Recency(recency, e1)
    /\ last' = <<"Clear">>
    /\ step' = Advance(<<"Clear">>)
    /\ UNCHANGED <<wrapped, sweepVars, pending, now>>

\* Size that counts every record
TTLSize_all == Cardinality(DOMAIN ttlEntries)

\* the entries Size counts
TTLSize == Cardinality({k \in DOMAIN ttlEntries : ~IsExpired(ttlEntries[k], now)})

\* Resize that drops the TTL records of the keys the engine evicts
TTLResize_dropEvicted(newSize) ==
    /\ wrapped /\ ~fault
    /\ LET e1 == EngResize(Engine, newSize)
       IN  /\ Install(e1)
           /\ recency' = Recency(recency, e1)
           /\ last' = <<"Resize", newSize, ResizeErr(e1),
                        Evicted(Engine, {}, e1)>>
           /\ ttlEntries' = [k \in DOMAIN ttlEntries \ Evicted(Engine, {}, e1) |->
                                ttlEntries[k]]
    /\ step' = Advance(<<"Resize", newSize>>)
    /\ UNCHANGED <<wrapped, sweepVars, pending, now>>

TTLResize(newSize) ==
    /\ wrapped /\ ~fault
    /\ LET e1 == EngResize(Engine, newSize)
       IN  /\ Install(e1)
           /\ recency' = Recency(recency, e1)
           /\ last' = <<"Resize", newSize, ResizeErr(e1),
                        Evicted(Engine, {}, e1)>>
    /\ step' = Advance(<<"Resize", newSize>>)
    /\ UNCHANGED <<wrapped, sweepVars, pending, ttlEntries, now>>

\* ExtendTTL that counts the extra time from the time of the call
TTLExtendTTL_fromNow(key, additionalTime) ==
    /\ wrapped /\ ~fault
    /\ IF key \notin DOMAIN ttlEntries \/ IsExpired(ttlEntries[key], now)
       THEN /\ UNCHANGED ttlEntries
            /\ last' = <<"ExtendTTL", key, FALSE, additionalTime>>
       ELSE /\ ttlEntries' = [ttlEntries EXCEPT ![key].ExpiresAt = now + additionalTime]
            /\ last' = <<"ExtendTTL", key, TRUE, additionalTime>>
    /\ step' = Advance(<<"ExtendTTL", key>>)
    /\ UNCHANGED <<engineVars, wrapped, sweepVars, pending, recency, now>>

TTLExtendTTL(key, additionalTime) ==
    /\ wrapped /\ ~fault
    /\ IF key \notin DOMAIN ttlEntries \/ IsExpired(ttlEntries[key], now)
       THEN /\ UNCHANGED ttlEntries
            /\ last' = <<"ExtendTTL", key, FALSE, additionalTime>>
       ELSE /\ ttlEntries' = [ttlEntries EXCEPT ![key].ExpiresAt = @ + additionalTime]
            /\ last' = <<"ExtendTTL", key, TRUE, additionalTime>>
    /\ step' = Advance(<<"ExtendTTL", key>>)
    /\ UNCHANGED <<engineVars, wrapped, sweepVars, pending, recency, now>>

\* TTLCache.Size: the call returns the count and changes nothing
TTLCallSize ==
    /\ wrapped /\ ~fault
    /\ last' = <<"Size", TTLSize>>
    /\ step' = Advance(<<"Size">>)
    /\ UNCHANGED <<engineVars, wrapped, sweepVars, pending, ttlEntries, now, recency>>

\* TTLCache.GetTTL reads the clock twice: IsExpired compares the entry with
\* time.Now(), time.Until(entry.ExpiresAt) reads time.Now() again, no earlier
TTLGetTTL(key) ==
    /\ wrapped /\ ~fault
    /\ IF key \notin DOMAIN ttlEntries \/ IsExpired(ttlEntries[key], now)
       THEN /\ last' = <<"GetTTL", key, 0, FALSE>>
            /\ UNCHANGED now
       ELSE \E later \in now..Min(now + 1, MaxTime) :
               /\ now' = later
               /\ last' = <<"GetTTL", key, ttlEntries[key].ExpiresAt - later, TRUE>>
    /\ step' = Advance(<<"GetTTL", key>>)
    /\ UNCHANGED <<engineVars, wrapped, sweepVars, pending, ttlEntries, recency>>

\* cleanup that also takes the records whose deadline is the current instant
cleanup_atDeadline ==
    /\ wrapped /\ ~fault
    /\ LET expiredKeys == {k \in DOMAIN ttlEntries : now >= ttlEntries[k].ExpiresAt}
       IN  /\ ttlEntries' = [k \in DOMAIN ttlEntries \ expiredKeys |-> ttlEntries[k]]
           /\ \E order \in Orders(expiredKeys) :
                 LET e1 == DeleteEach(Engine, order)
                 IN  /\ Install(e1)
                     /\ recency' = Recency(recency, e1)
           /\ last' = <<"cleanup", expiredKeys>>
    /\ step' = Advance(<<"cleanup">>)
    /\ UNCHANGED <<wrapped, pending, now>>

\* TTLCache.cleanup: one sweep, under the write lock from start to end
cleanup ==
    /\ wrapped /\ ~fault
    /\ LET expiredKeys == {k \in DOMAIN ttlEntries : now > ttlEntries[k].ExpiresAt}
       IN  /\ ttlEntries' = [k \in DOMAIN ttlEntries \ expiredKeys |-> ttlEntries[k]]
           /\ \E order \in Orders(expiredKeys) :
                 LET e1 == DeleteEach(Engine, order)
                 IN  /\ Install(e1)
                     /\ recency' = Recency(recency, e1)
           /\ last' = <<"cleanup", expiredKeys>>
    /\ step' = Advance(<<"cleanup">>)
    /\ UNCHANGED <<wrapped, pending, now>>

\* one tick of the cleanup goroutine: the tick is received and the sweep runs
TTLCleanup == cleanup /\ UNCHANGED sweepVars

(***************************************************************************)
(* The goroutine of startCleanup (part_002:166-180) and Stop               *)
(* (part_002:201-206).  The goroutine waits in a select on ticker.C and on *)
(* stopCleanup; when both are ready the select takes either.               *)
(***************************************************************************)
\* the ticker puts a tick into ticker.C; a tick that finds the buffer full is dropped
TickerFire ==
    /\ wrapped /\ ~fault
    /\ sweeper \in {"select", "cleanup"}
    /\ tickerC = 0
    /\ tickerC' = 1
    /\ UNCHANGED <<engineVars, wrapped, ttlEntries, now, sweeper, stopCleanup,
                   pending, last, recency, step>>

\* case <-ticker.C
SweepTakeTick ==
    /\ wrapped /\ ~fault
    /\ sweeper = "select" /\ tickerC = 1
    /\ tickerC' = 0
    /\ sweeper' = "cleanup"
    /\ UNCHANGED <<engineVars, wrapped, ttlEntries, now, stopCleanup,
                   pending, last, recency, step>>

\* a loop that goes back to the select without sweeping
SweepCleanup_idle ==
    /\ wrapped /\ ~fault
    /\ sweeper = "cleanup"
    /\ sweeper' = "select"
    /\ last' = <<"cleanup", {}>>
    /\ UNCHANGED <<engineVars, wrapped, ttlEntries, now, stopCleanup, tickerC,
                   pending, recency, step>>

\* t.cleanup() called from the loop, then back to the select
SweepCleanup ==
    /\ sweeper = "cleanup"
    /\ cleanup
    /\ sweeper' = "select"
    /\ UNCHANGED <<stopCleanup, tickerC>>

\* a loop that receives the stop value and goes on selecting
SweepTakeStop_continue ==
    /\ wrapped /\ ~fault
    /\ sweeper = "select" /\ stopCleanup = 1
    /\ stopCleanup' = 0
    /\ UNCHANGED <<engineVars, wrapped, ttlEntries, now, sweeper, tickerC,
                   pending, last, recency, step>>

\* case <-t.stopCleanup: return; the deferred ticker.Stop() ends the ticks
SweepTakeStop ==
    /\ wrapped /\ ~fault
    /\ sweeper = "select" /\ stopCleanup = 1
    /\ stopCleanup' = 0
    /\ sweeper' = "exited"
    /\ UNCHANGED <<engineVars, wrapped, ttlEntries, now, tickerC,
                   pending, last, recency, step>>

\* Stop whose send waits for room in the channel
TTLStop_blocking ==
    /\ wrapped /\ ~fault
    /\ stopCleanup = 0
    /\ stopCleanup' = 1
    /\ last' = <<"Stop">>
    /\ step' = Advance(<<"Stop">>)
    /\ UNCHANGED <<engineVars, wrapped, ttlEntries, now, sweeper, tickerC,
                   pending, recency>>

\* TTLCache.Stop: select { case t.stopCleanup <- true: default: }
TTLStop ==
    /\ wrapped /\ ~fault
    /\ stopCleanup' = IF stopCleanup = 0 THEN 1 ELSE stopCleanup
    /\ last' = <<"Stop">>
    /\ step' = Advance(<<"Stop">>)
    /\ UNCHANGED <<engineVars, wrapped, ttlEntries, now, sweeper, tickerC,
                   pending, recency>>

\* the clock advances
Tick ==
    /\ wrapped /\ ~fault
    /\ now < MaxTime
    /\ now' = now + 1
    /\ UNCHANGED <<engineVars, wrapped, sweepVars, pending, ttlEntries, last, recency, step>>

\* bound of the model: an entry's deadline stays within MaxTime + MaxTTL
ExpiryBelowBound(key, additionalTime) ==
    key \in DOMAIN ttlEntries => ttlEntries[key].ExpiresAt + additionalTime <= MaxTime + MaxTTL

\* a decorated engine larger than the keys in play never evicts
TTLCaps == 1..NumTTLKeys

InitTTL ==
    \/ \E pol \in Policies, max \in Caps : NewEngine(pol, max) /\ NotWrapped
    \/ \E pol \in Policies, max \in TTLCaps : NewEngine(pol, max) /\ NewTTLCache

NextTTL ==
    \/ \E key \in TTLKeys, value \in Vals, ttl \in TTLs :
          FreqBelowBound(key, MaxFreq) /\ TTLSetWithTTL(key, value, ttl)
    \/ \E key \in TTLKeys, value \in Vals : FreqBelowBound(key, MaxFreq) /\ TTLSet(key, value)
    \/ \E key \in TTLKeys : FreqBelowBound(key, MaxFreq) /\ TTLGet(key)
    \/ \E key \in TTLKeys : TTLDelete(key)
    \/ TTLClear
    \/ \E newSize \in ResizeArgs : TTLResize(newSize)
    \/ \E key \in TTLKeys, additionalTime \in TTLs :
          ExpiryBelowBound(key, additionalTime) /\ TTLExtendTTL(key, additionalTime)
    \/ TTLCleanup
    \/ Tick

SpecTTL == InitTTL /\ [][Next \/ NextTTL]_vars

\* the decorator at its constructed capacity: every call but Resize
InitDecorator == \E pol \in Policies, max \in TTLCaps : NewEngine(pol, max) /\ NewTTLCache

NextDecorator ==
    \/ \E key \in TTLKeys, value \in Vals, ttl \in TTLs :
          FreqBelowBound(key, MaxFreq) /\ TTLSetWithTTL(key, value, ttl)
    \/ \E key \in TTLKeys, value \in Vals : FreqBelowBound(key, MaxFreq) /\ TTLSet(key, value)
    \/ \E key \in TTLKeys : FreqBelowBound(key, MaxFreq) /\ TTLGet(key)
    \/ \E key \in TTLKeys : TTLDelete(key)
    \/ TTLClear
    \/ TTLCallSize
    \/ \E key \in TTLKeys : TTLGetTTL(key)
    \/ \E key \in TTLKeys, additionalTime \in TTLs :
          ExpiryBelowBound(key, additionalTime) /\ TTLExtendTTL(key, additionalTime)
    \/ TTLCleanup
    \/ Tick

SpecDecorator == InitDecorator /\ [][NextDecorator]_vars

\* the decorator with its goroutine: callers store, read and stop while the ticker
\* fires and the goroutine sweeps
SweepVals == {1}

NextSweep ==
    \/ \E key \in TTLKeys, value \in SweepVals, ttl \in TTLs :
          FreqBelowBound(key, MaxFreq) /\ TTLSetWithTTL(key, value, ttl)
    \/ \E key \in TTLKeys : FreqBelowBound(key, MaxFreq) /\ TTLGet(key)
    \/ \E key \in TTLKeys : TTLDelete(key)
    \/ TTLStop
    \/ Tick
    \/ TickerFire
    \/ SweepTakeTick
    \/ SweepCleanup
    \/ SweepTakeStop

SpecSweep == InitDecorator /\ [][NextSweep]_vars

\* the step of SweepCleanup as the scheduler sees it: cleanup() is called and
\* returns (it has no loop that waits), whatever it removes
SweepReturns ==
    /\ wrapped /\ ~fault
    /\ sweeper = "cleanup"
    /\ sweeper' = "select"

\* the ticker keeps firing and the goroutine is scheduled; a select that is offered
\* the stop value again and again takes it in the end
SpecSweepFair ==
    /\ SpecSweep
    /\ WF_vars(TickerFire)
    /\ WF_vars(SweepTakeTick)
    /\ WF_sweeper(SweepReturns)
    /\ SF_vars(SweepTakeStop)

(***************************************************************************)
(* Get under concurrent callers (src/lru.go:86-99, part_000:525-541).      *)
(* Set, Delete, Clear and Resize hold the write lock from entry to return  *)
(* and stay one step each.  Get looks the key up under the read lock,      *)
(* releases it, takes the write lock to update the list and, in LRU, takes *)
(* the read lock again to read node.value: every section is a step, and    *)
(* the steps of other calls may come between them.                         *)
(***************************************************************************)
ConcKeys == 1..NumConcKeys

\* LRUCache.Get: RLock; node, exists := cache[key]; a miss returns; RUnlock
LRUGetLookup(t, key) ==
    /\ policy = "LRU" /\ ~wrapped /\ ~fault
    /\ pending[t].pc = "idle"
    /\ IF key \in DOMAIN cache
       THEN /\ pending' = [pending EXCEPT ![t] = [pc |-> "promote", key |-> key,
                                                   node |-> cache[key], value |-> Nil]]
            /\ UNCHANGED last
       ELSE /\ last' = <<"Get", key, Nil, FALSE>>
            /\ UNCHANGED pending
    /\ step' = <<"none", 0>>
    /\ UNCHANGED <<engineVars, ttlVars, recency>>

\* LRUCache.Get: Lock; moveToHead(node); Unlock
LRUGetPromote(t) ==
    /\ policy = "LRU" /\ ~wrapped /\ ~fault
    /\ pending[t].pc = "promote"
    /\ LET node == pending[t].node
           e1 == Returned([Engine EXCEPT !.heap = LRU_moveToHead(heap, node)])
       IN  /\ Install(e1)
           /\ recency' = Recency(IF pending[t].key \in DOMAIN cache
                                 THEN Touch(recency, pending[t].key) ELSE recency, e1)
    /\ pending' = [pending EXCEPT ![t].pc = "read"]
    /\ UNCHANGED <<ttlVars, last, step>>

\* LRUCache.Get: RLock; return node.value, true; RUnlock (deferred)
LRUGetReturn(t) ==
    /\ policy = "LRU" /\ ~wrapped /\ ~fault
    /\ pending[t].pc = "read"
    /\ pending' = [pending EXCEPT ![t] = Idle]
    /\ last' = <<"Get", pending[t].key, heap[pending[t].node].value, TRUE>>
    /\ LET e1 == Returned([Engine EXCEPT !.held = HeldBy([pending EXCEPT ![t] = Idle])])
       IN  Install(e1)
    /\ UNCHANGED <<ttlVars, recency, step>>

\* LFUCache.Get: RLock; node, exists := cache[key]; a miss returns;
\* value := node.value; RUnlock
LFUGetLookup(t, key) ==
    /\ policy = "LFU" /\ ~wrapped /\ ~fault
    /\ pending[t].pc = "idle"
    /\ IF key \in DOMAIN cache
       THEN /\ pending' = [pending EXCEPT ![t] = [pc |-> "promote", key |-> key,
                                                   node |-> cache[key],
                                                   value |-> heap[cache[key]].value]]
            /\ UNCHANGED last
       ELSE /\ last' = <<"Get", key, Nil, FALSE>>
            /\ UNCHANGED pending
    /\ step' = <<"none", 0>>
    /\ UNCHANGED <<engineVars, ttlVars, recency>>

\* LFUCache.Get: Lock; updateFreq(node); Unlock; return value, true
LFUGetPromote(t) ==
    /\ policy = "LFU" /\ ~wrapped /\ ~fault
    /\ pending[t].pc = "promote"
    /\ LET node == pending[t].node
           e0 == LFU_updateFreq(Engine, node)
           e1 == Returned([e0 EXCEPT !.held = HeldBy([pending EXCEPT ![t] = Idle])])
       IN  /\ Install(e1)
           /\ recency' = Recency(IF pending[t].key \in DOMAIN cache
                                 THEN Touch(recency, pending[t].key) ELSE recency, e1)
           /\ last' = IF e1.fault THEN <<"Get", pending[t].key, "panic", FALSE>>
                      ELSE <<"Get", pending[t].key, pending[t].value, TRUE>>
    /\ pending' = [pending EXCEPT ![t] = Idle]
    /\ UNCHANGED <<ttlVars, step>>

\* bound of the model: an address names one object.  The node of a key and the
\* bucket of a frequency have fixed addresses, so a key is not stored anew, and a
\* bucket not made anew, while a Get in flight (or a node it put back) still leads
\* to the old object at that address.
NodeFree(key) == key \in DOMAIN cache \/ NewNode(key) \notin DOMAIN heap
BucketFree(freq) == freq \in DOMAIN freqMap \/ BucketAddr(freq) \notin DOMAIN heap
\* the bucket a Set of key links its node into
SetBucket(key) == IF key \in DOMAIN cache THEN heap[cache[key]].freq + 1 ELSE 1

InitConc ==
    \E pol \in {"LRU", "LFU"}, max \in 1..NumConcKeys : NewEngine(pol, max) /\ NotWrapped

NextConc ==
    \/ \E key \in ConcKeys, value \in Vals : NodeFree(key) /\ LRUSet(key, value)
    \/ \E t \in Threads, key \in ConcKeys : LRUGetLookup(t, key)
    \/ \E t \in Threads : LRUGetPromote(t)
    \/ \E t \in Threads : LRUGetReturn(t)
    \/ \E key \in ConcKeys : LRUDelete(key)
    \/ LRUClear
    \/ \E newSize \in 0..NumConcKeys : LRUResize(newSize)
    \/ \E key \in ConcKeys, value \in Vals :
          /\ policy = "LFU" /\ NodeFree(key) /\ BucketFree(SetBucket(key))
          /\ FreqBelowBound(key, MaxFreq) /\ LFUSet(key, value)
    \/ \E t \in Threads, key \in ConcKeys :
          FreqBelowBound(key, MaxFreq) /\ LFUGetLookup(t, key)
    \/ \E t \in Threads :
          /\ policy = "LFU" /\ pending[t].pc = "promote"
          /\ BucketFree(heap[pending[t].node].freq + 1)
          /\ LFUGetPromote(t)
    \/ \E key \in ConcKeys : LFUDelete(key)
    \/ LFUClear
    \/ \E newSize \in 0..NumConcKeys : LFUResize(newSize)

SpecConc == InitConc /\ [][NextConc]_vars

(***************************************************************************)
(* Concurrent callers of the TTL decorator over an LRU or LFU engine.      *)
(* TTLCache.Get releases t.mu before it calls t.Delete or t.cache.Get, and *)
(* the engine's Get releases its read lock before it promotes: each        *)
(* critical section of a Get is a step, the calls that hold one write lock *)
(* from start to end (SetWithTTL, Delete) are one step each.               *)
(***************************************************************************)
\* TTLCache.Get: RLock; the record is looked up and tested with IsExpired; RUnlock
TTLGetCheck(t, key) ==
    /\ wrapped /\ ~fault
    /\ pending[t].pc = "idle"
    /\ IF key \notin DOMAIN ttlEntries
       THEN /\ last' = <<"Get", key, Nil, FALSE>>
            /\ UNCHANGED pending
       ELSE /\ pending' = [pending EXCEPT ![t] =
                              [pc |-> IF IsExpired(ttlEntries[key], now)
                                      THEN "expire" ELSE "forward",
                               key |-> key, node |-> Nil, value |-> Nil]]
            /\ UNCHANGED last
    /\ step' = <<"none", 0>>
    /\ UNCHANGED <<engineVars, ttlVars, recency>>

\* TTLCache.Get, the record was expired: t.Delete(key); return nil, false
TTLGetExpire(t) ==
    /\ wrapped /\ ~fault
    /\ pending[t].pc = "expire"
    /\ ttlEntries' = MapDel(ttlEntries, pending[t].key)
    /\ LET e1 == EngDelete(Engine, pending[t].key)
       IN  /\ Install(e1)
           /\ recency' = Recency(recency, e1)
    /\ last' = <<"Get", pending[t].key, Nil, FALSE, "expired">>
    /\ pending' = [pending EXCEPT ![t] = Idle]
    /\ UNCHANGED <<wrapped, sweepVars, now, step>>

\* TTLCache.Get, the record was live: return t.cache.Get(key); the engine looks the
\* key up under its read lock (LFU reads the value here, LRU after promoting)
TTLGetForward(t) ==
    /\ wrapped /\ ~fault
    /\ pending[t].pc = "forward"
    /\ IF pending[t].key \in DOMAIN cache
       THEN /\ pending' = [pending EXCEPT ![t] =
                              [pc |-> "promote", key |-> pending[t].key,
                               node |-> cache[pending[t].key],
                               value |-> IF policy = "LFU"
                                         THEN heap[cache[pending[t].key]].value
                                         ELSE Nil]]
            /\ UNCHANGED last
       ELSE /\ pending' = [pending EXCEPT ![t] = Idle]
            /\ last' = <<"Get", pending[t].key, Nil, FALSE>>
    /\ UNCHANGED <<engineVars, ttlVars, recency, step>>

\* the engine's Get: Lock; moveToHead(node) or updateFreq(node); Unlock.  The LFU
\* engine returns the value it read; when updateFreq panics the call never returns
\* (the Unlock of LFUCache.Get is not deferred)
TTLGetPromote(t) ==
    /\ wrapped /\ ~fault
    /\ pending[t].pc = "promote"
    /\ LET node == pending[t].node
           e0 == IF policy = "LRU"
                 THEN [Engine EXCEPT !.heap = LRU_moveToHead(heap, node)]
                 ELSE LFU_updateFreq(Engine, node)
           next == IF policy = "LRU" THEN "read"
                   ELSE IF e0.fault THEN "panicked" ELSE "idle"
           p1 == [pending EXCEPT ![t] = IF next = "idle" THEN Idle
                                        ELSE [pending[t] EXCEPT !.pc = next]]
           e1 == Returned([e0 EXCEPT !.held = HeldBy(p1)])
       IN  /\ Install(e1)
           /\ recency' = Recency(IF pending[t].key \in DOMAIN cache
                                 THEN Touch(recency, pending[t].key) ELSE recency, e1)
           /\ pending' = p1
           /\ last' = IF next = "read" THEN last
                      ELSE IF next = "panicked"
                      THEN <<"Get", pending[t].key, Nil, FALSE, "panic">>
                      ELSE <<"Get", pending[t].key, pending[t].value, TRUE>>
    /\ UNCHANGED <<ttlVars, step>>

\* LRUCache.Get: RLock; return node.value, true; RUnlock (deferred)
TTLGetReturn(t) ==
    /\ wrapped /\ ~fault
    /\ pending[t].pc = "read"
    /\ pending' = [pending EXCEPT ![t] = Idle]
    /\ last' = <<"Get", pending[t].key, heap[pending[t].node].value, TRUE>>
    /\ LET e1 == Returned([Engine EXCEPT !.held = HeldBy([pending EXCEPT ![t] = Idle])])
       IN  Install(e1)
    /\ UNCHANGED <<ttlVars, recency, step>>

\* bound of the model: concurrent callers store with one time to live, short enough
\* for the record to expire within MaxTime
ShortTTL == 1

InitTTLConc ==
    \E pol \in {"LRU", "LFU"}, max \in 1..NumConcKeys : NewEngine(pol, max) /\ NewTTLCache

NextTTLConc ==
    \/ \E key \in ConcKeys, value \in SweepVals :
          /\ NodeFree(key)
          /\ policy = "LFU" => BucketFree(SetBucket(key))
          /\ FreqBelowBound(key, MaxFreq)
          /\ TTLSetWithTTL(key, value, ShortTTL)
    \/ \E key \in ConcKeys : TTLDelete(key)
    \/ Tick
    \/ \E t \in Threads, key \in ConcKeys : TTLGetCheck(t, key)
    \/ \E t \in Threads : TTLGetExpire(t)
    \/ \E t \in Threads : TTLGetForward(t)
    \/ \E t \in Threads :
          /\ pending[t].pc = "promote"
          /\ policy = "LFU" =>
                /\ heap[pending[t].node].freq < MaxFreq + 1
                /\ BucketFree(heap[pending[t].node].freq + 1)
          /\ TTLGetPromote(t)
    \/ \E t \in Threads : TTLGetReturn(t)

SpecTTLConc == InitTTLConc /\ [][NextTTLConc]_vars

\* what a thread may keep of a call in flight
CallStates ==
    [pc : {"idle", "expire", "forward", "promote", "read", "panicked"},
     key : ConcKeys \cup {Nil}, node : ConcKeys \cup {Nil}, value : SweepVals \cup {Nil}]

\* the call thread t has in flight takes its next step, as the scheduler sees it:
\* the thread moves to another place of the call or returns
CallProceeds(t) ==
    /\ wrapped /\ ~fault
    /\ pending[t].pc \notin {"idle", "panicked"}
    /\ \E c \in CallStates :
          /\ c.pc # pending[t].pc
          /\ pending' = [pending EXCEPT ![t] = c]

\* a call in flight is scheduled: none of its steps waits for more than a lock,
\* and every lock is released by the step that took it
SpecTTLConcFair ==
    /\ SpecTTLConc
    /\ \A t \in Threads : WF_pending(CallProceeds(t))

(***************************************************************************)
(* Properties                                                              *)
(***************************************************************************)
Size == EngSize(Engine)
HeldKeys == EngKeys(Engine)

\* the keys of the LRU list from the head sentinel to the tail sentinel
RECURSIVE LRUWalk(_, _)
LRUWalk(h, node) == IF node = LruTail THEN <<>> ELSE <<h[node].key>> \o LRUWalk(h, h[node].next)

LRUListKeys(h) == LRUWalk(h, h[LruHead].next)

\* the keys the call recorded in l put out
EvictedBy(l) == IF l[1] = "Set" THEN l[5] ELSE IF l[1] = "Resize" THEN l[4] ELSE {}

PosIn(seq, k) == CHOOSE i \in 1..Len(seq) : seq[i] = k

C2_LRUOrder ==
    [][ policy = "LRU" =>
          /\ LRUListKeys(heap') = recency'
          /\ (last'[1] = "Set" /\ ~last'[4] /\ size = maxSize) =>
                /\ EvictedBy(last') = {recency[Len(recency)]}
                /\ DOMAIN cache' = (DOMAIN cache \cup {last'[2]}) \ EvictedBy(last')
          /\ ((last'[1] = "Set" /\ last'[4]) \/ (last'[1] = "Get" /\ last'[4])) =>
                /\ LRUListKeys(heap')[1] = last'[2]
                /\ DOMAIN cache' = DOMAIN cache
      ]_vars

\* a full LRU engine of several keys has just put out its oldest key for a new one
C2_Witness ==
    /\ policy = "LRU"
    /\ last[1] = "Set" /\ ~last[4] /\ EvictedBy(last) # {}
    /\ size = maxSize /\ size >= 2
    /\ step[1] = "none"

\* C3 as stated: at capacity 2, after Set A, B, C, Get A, Set D, the cache holds
\* exactly {A, D}.
C3_AsStated == step = <<"LRUOrder2", 5>> => DOMAIN cache = {KeyA, KeyD}

\* C3, amended: the calls Set A, B, C, Get A, Set D end with D evicting B (not A)
\* on an engine of capacity 3, which then holds exactly {A, C, D}.  At capacity 2
\* Set C has already evicted A, Get A misses, and Set D evicts B: the engine holds
\* exactly {C, D}.
C3_LRUScenario ==
    /\ step = <<"LRUOrder3", 4>> => (last = <<"Get", KeyA, 1, TRUE>>
                                     /\ DOMAIN cache = {KeyA, KeyB, KeyC})
    /\ step = <<"LRUOrder3", 5>> => (EvictedBy(last) = {KeyB} /\ DOMAIN cache = {KeyA, KeyC, KeyD})
    /\ step = <<"LRUOrder2", 3>> => (EvictedBy(last) = {KeyA} /\ DOMAIN cache = {KeyB, KeyC})
    /\ step = <<"LRUOrder2", 4>> => last = <<"Get", KeyA, Nil, FALSE>>
    /\ step = <<"LRUOrder2", 5>> => (EvictedBy(last) = {KeyB} /\ DOMAIN cache = {KeyC, KeyD})

\* the end of the scenario at capacity 3
C3_Witness == step = <<"LRUOrder3", 5>> /\ policy = "LRU" /\ size = 3

\* the frequency and the order of touch of the keys an LFU call chooses its victims
\* from: the keys held before it and, for a Set, the key it stores (frequency 1,
\* newest)
LFUCandFreq == [k \in DOMAIN cache \cup (IF last'[1] = "Set" THEN {last'[2]} ELSE {}) |->
                   IF k \in DOMAIN cache THEN heap[cache[k]].freq ELSE 1]
LFUCandOrder == IF last'[1] = "Set" /\ last'[2] \notin DOMAIN cache
                THEN <<last'[2]>> \o recency ELSE recency

\* C4: LFU: a key evicted for capacity (by a Set of a new key or by Resize) has the
\* minimum frequency among the keys present at that moment and is, among the keys
\* of that frequency, the least recently inserted or touched.  At capacity 3, after
\* Set A, B, C, three Get(A) and one Get(B), Set(D) evicts C and leaves {A, B, D}.
C4_LFUVictim ==
    [][ policy = "LFU" =>
          /\ ((last'[1] = "Set" /\ ~last'[4]) \/ last'[1] = "Resize") =>
                \A v \in EvictedBy(last') : \A k \in DOMAIN LFUCandFreq \ {v} :
                    \/ LFUCandFreq[v] < LFUCandFreq[k]
                    \/ /\ LFUCandFreq[v] = LFUCandFreq[k]
                       /\ \/ k \in EvictedBy(last')
                          \/ PosIn(LFUCandOrder, v) > PosIn(LFUCandOrder, k)
          /\ step' = <<"LFUEviction", 8>> =>
                (EvictedBy(last') = {KeyC} /\ DOMAIN cache' = {KeyA, KeyB, KeyD})
      ]_vars

\* the end of the documented scenario: D is in, C is out
C4_Witness ==
    /\ step = <<"LFUEviction", 8>>
    /\ last[1] = "Set" /\ last[2] = KeyD /\ EvictedBy(last) = {KeyC}


\* C5 as stated: LFU: right after Set(k, v) returns, Get(k) returns (v, true); the
\* key just stored is not the one evicted to make room.
C5_AsStated ==
    (policy = "LFU" /\ last[1] = "Set" /\ ~fault) =>
        EngGetResult(Engine, last[2]) = <<last[3], TRUE>>

\* C6 as stated: LFU: Resize(n) with n > 0 completes without a fault, returns no
\* error and leaves Size() = min(previous size, n); in the documented scenario
\* Resize(2) retains exactly {A, B} and a further Resize(1) exactly {A}.
C6_AsStated ==
    [][ policy = "LFU" =>
          /\ (last'[1] = "Resize" /\ last'[2] > 0) =>
                (~fault' /\ last'[3] = ErrNone /\ Size' = Min(Size, last'[2]))
          /\ step' = <<"LFUResize", 8>> => DOMAIN cache' = {KeyA, KeyB}
          /\ step' = <<"LFUResize", 9>> => DOMAIN cache' = {KeyA}
      ]_vars

\* C7: Resize(n) with n <= 0 on an LRU, LFU or baseline engine, called directly or
\* through the TTL decorator, returns ErrInvalidMaxSize and changes nothing: the
\* capacity, the keys and values, the recency and frequency order and every TTL
\* record are what they were before the call.
C7_InvalidResize ==
    [][ (last'[1] = "Resize" /\ last'[2] <= 0) =>
          /\ last'[3] = ErrInvalidMaxSize
          /\ UNCHANGED <<engineVars, ttlEntries, recency>>
      ]_vars

\* a decorated engine with entries and TTL records, after a refused Resize
C7_Witness ==
    /\ wrapped /\ policy = "LRU"
    /\ last[1] = "Resize" /\ last[2] <= 0 /\ last[3] = ErrInvalidMaxSize
    /\ size = 2 /\ DOMAIN ttlEntries # {}

\* C8: baseline: Set(k, v) with k absent while Size() >= capacity leaves the map
\* unchanged and raises no error; Set(k, v) with k present replaces k's value, even
\* when the cache is full.
C8_DefSet ==
    [][ (policy = "NoEviction" /\ last'[1] = "Set") =>
          /\ ~fault' /\ maxSize' = maxSize
          /\ (last'[2] \notin DOMAIN data /\ Size >= maxSize) => data' = data
          /\ last'[2] \in DOMAIN data =>
                data' = [data EXCEPT ![last'[2]] = last'[3]]
      ]_vars

\* a full baseline engine has just dropped the Set of a new key
C8_Witness ==
    /\ policy = "NoEviction"
    /\ last[1] = "Set" /\ ~last[4] /\ last[2] \notin DOMAIN data
    /\ Size = maxSize

\* C9: baseline: Resize(n) with 0 < n < Size() removes no entry, so Size() exceeds
\* the new capacity; afterwards a Set of an absent key is dropped as long as
\* Size() >= n, and stored again once Deletes have brought Size() below n.
C9_DefResizeDown ==
    [][ policy = "NoEviction" =>
          /\ (last'[1] = "Resize" /\ 0 < last'[2] /\ last'[2] < Size) =>
                /\ last'[3] = ErrNone
                /\ data' = data
                /\ maxSize' = last'[2]
                /\ Size' > maxSize'
          /\ (last'[1] = "Set" /\ last'[2] \notin DOMAIN data) =>
                data' = IF Size >= maxSize THEN data
                        ELSE MapPut(data, last'[2], last'[3])
          /\ (last'[1] = "Delete" /\ last'[2] \in DOMAIN data) => Size' = Size - 1
      ]_vars

\* a baseline engine still above the capacity it was shrunk to has dropped a Set
C9_Witness ==
    /\ policy = "NoEviction"
    /\ last[1] = "Set" /\ last[2] \notin DOMAIN data
    /\ Size > maxSize

\* C10: on the three engines Set(k, v) on a present key makes Get(k) return v,
\* leaves Size() unchanged and evicts no key, whatever the fullness.
C10_UpdateInPlace ==
    [][ (last'[1] = "Set" /\ last'[4]) =>
          /\ ~fault'
          /\ (EngGetResult(Engine, last[2]))' = <<last'[3], TRUE>>
          /\ Size' = Size
          /\ HeldKeys' = HeldKeys
      ]_vars

\* a full LFU engine of several keys after the Set of a key it held
C10_Witness ==
    /\ policy = "LFU"
    /\ last[1] = "Set" /\ last[4]
    /\ size = maxSize /\ size >= 2
    /\ EngGetResult(Engine, last[2]) = <<2, TRUE>>


(***************************************************************************)
(* Concurrent callers                                                      *)
(***************************************************************************)
\* thread t has looked its key up and has not yet promoted the node
BetweenLookupAndPromotion(t) == pending[t].pc = "promote"

\* C11: LRU and LFU Get look the key up and update recency or frequency inside one
\* exclusive critical section: while a Get is between its lookup of a node and its
\* promotion of that node, no step of another call changes the cache.
C11_AsStated ==
    [][\A t \in Threads :
          (BetweenLookupAndPromotion(t) /\ pending'[t] = pending[t])
              => UNCHANGED <<data, cache, size, heap, freqMap, minFreq, maxSize>>]_vars

\* no call is in flight: every Get has returned
BetweenOperations == \A t \in Threads : pending[t].pc = "idle"

\* the keys met on the way from node along next to the tail sentinel, at most fuel
\* of them (a list that a stale promotion has bent need not reach the tail)
RECURSIVE LRUWalkWithin(_, _, _)
LRUWalkWithin(h, node, fuel) ==
    IF node = LruTail \/ node \notin DOMAIN h \/ fuel = 0 THEN <<>>
    ELSE <<h[node].key>> \o LRUWalkWithin(h, h[node].next, fuel - 1)

\* C12: LRU, between operations under any interleaving of Set, Get, Delete, Clear
\* and Resize: the list and the map hold the same keys, and the list length, the
\* number of map entries and the size counter are equal.
C12_AsStated ==
    (policy = "LRU" /\ ~fault /\ BetweenOperations) =>
        LET listKeys == LRUWalkWithin(heap, heap[LruHead].next, Cardinality(DOMAIN heap))
        IN  /\ {listKeys[i] : i \in 1..Len(listKeys)} = DOMAIN cache
            /\ Len(listKeys) = Cardinality(DOMAIN cache)
            /\ Cardinality(DOMAIN cache) = size

\* C13: LFU is safe for concurrent use: no interleaving of Get, Set, Delete, Clear
\* and Resize faults by dereferencing a frequency bucket that has been deleted.
C13_AsStated == (policy = "LFU" /\ last[1] = "Get") => ~fault

(***************************************************************************)
(* TTL decorator                                                           *)
(***************************************************************************)
\* the step is the decorator's call of this name (Tick leaves last as it was)
TTLCall(name) == wrapped /\ last'[1] = name /\ (last' # last \/ now' = now)

\* C14: a Get(k) issued when the current time is after k's expiration instant
\* returns not-found, and when it returns k is absent from the TTL map and from the
\* wrapped engine; no sweep is needed for it.
C14_LazyExpiration ==
    [][\A k \in TTLKeys :
          (/\ TTLCall("Get") /\ last'[2] = k
           /\ k \in DOMAIN ttlEntries /\ now > ttlEntries[k].ExpiresAt)
              => /\ last'[3] = Nil /\ last'[4] = FALSE
                 /\ k \notin DOMAIN ttlEntries'
                 /\ k \notin (EngKeys(Engine))']_vars

\* a Get has just reclaimed an expired key that the engine still held
C14_Witness ==
    /\ wrapped /\ last[1] = "Get" /\ Len(last) = 5 /\ last[5] = "expired"
    /\ last[4] = FALSE
    /\ last[2] \notin DOMAIN ttlEntries
    /\ last[2] \notin HeldKeys

\* the records whose expiration instant has not passed
Unexpired == {k \in DOMAIN ttlEntries : now <= ttlEntries[k].ExpiresAt}

C16_AsStated == (wrapped /\ policy = "LRU" /\ last[1] = "Size") => last[2] <= maxSize

\* C17: between operations, every key with an unexpired record in the TTL map is
\* present in the wrapped engine, also after the engine evicts for capacity or is
\* resized down.
C17_AsStated == (wrapped /\ ~fault) => Unexpired \subseteq HeldKeys

\* C18: ExtendTTL(k, extra) on a present, unexpired key sets k's expiration instant
\* to the previous one plus extra, whatever the time of the call, and returns true;
\* on an absent or expired key it returns false and changes no TTL record and
\* nothing in the wrapped engine.
C18_ExtendTTL ==
    [][TTLCall("ExtendTTL") =>
          LET k == last'[2]
              extra == last'[4]
          IN  /\ UNCHANGED <<data, cache, size, heap, freqMap, minFreq, maxSize>>
              /\ IF k \in Unexpired
                 THEN /\ last'[3] = TRUE
                      /\ ttlEntries' = [ttlEntries EXCEPT
                                           ![k] = TTLEntry(@.Value, @.ExpiresAt + extra)]
                 ELSE /\ last'[3] = FALSE
                      /\ ttlEntries' = ttlEntries]_vars

\* an extension made after the clock moved, so that the new deadline differs from
\* the time of the call plus the extra time
C18_Witness ==
    /\ wrapped /\ last[1] = "ExtendTTL" /\ last[3] = TRUE
    /\ last[2] \in DOMAIN ttlEntries
    /\ now > 0
    /\ ttlEntries[last[2]].ExpiresAt > now + last[4]

\* C19: GetTTL(k) returns (expiration instant - now, true) for an unexpired record
\* and (0, false) for an absent or expired one; it never returns found together
\* with a zero or negative remaining duration.
C19_AsStated ==
    (wrapped /\ last[1] = "GetTTL") =>
        IF last[4] THEN last[3] > 0 ELSE last[3] = 0

\* C20: Delete(k) leaves k absent from the TTL map and from the wrapped engine and
\* touches no other key; Clear() leaves both empty and Size() at 0.  Each call is
\* one step: one hold of the decorator's write lock covers both removals.
C20_DeleteAndClear ==
    [][/\ \A k \in TTLKeys :
             (TTLCall("Delete") /\ last'[2] = k) =>
                 /\ k \notin DOMAIN ttlEntries'
                 /\ (EngGetResult(Engine, k))' = <<Nil, FALSE>>
                 /\ \A j \in TTLKeys \ {k} :
                       /\ (j \in DOMAIN ttlEntries') = (j \in DOMAIN ttlEntries)
                       /\ j \in DOMAIN ttlEntries => ttlEntries'[j] = ttlEntries[j]
                       /\ (EngGetResult(Engine, j))' = EngGetResult(Engine, j)
       /\ TTLCall("Clear") =>
             /\ ttlEntries' = EmptyMap
             /\ (EngKeys(Engine))' = {}
             /\ Size' = 0
             /\ TTLSize' = 0]_vars

\* a Delete took a key the engine held and left the other key in both structures
C20_Witness ==
    /\ wrapped /\ last[1] = "Delete" /\ last[3] = TRUE
    /\ last[2] \notin DOMAIN ttlEntries /\ last[2] \notin HeldKeys
    /\ \E j \in TTLKeys \ {last[2]} : j \in DOMAIN ttlEntries /\ j \in HeldKeys

(***************************************************************************)
(* LFU bookkeeping                                                         *)
(***************************************************************************)
\* the frequencies of the keys the LFU cache holds
LFUFreqsInUse == {heap[cache[k]].freq : k \in DOMAIN cache}

\* C30: LFU, between the operations of a sequential run, cache not empty: minFreq is
\* the smallest frequency that has a non-empty bucket, and freqMap[minFreq] is a
\* present, non-empty bucket.
C30_AsStated ==
    (policy = "LFU" /\ ~fault /\ DOMAIN cache # {}) =>
        /\ minFreq \in DOMAIN freqMap
        /\ heap[freqMap[minFreq]].next # freqMap[minFreq]
        /\ \A f \in LFUFreqsInUse : minFreq <= f

(***************************************************************************)
(* TTL decorator: stores, resize and sweep                                 *)
(***************************************************************************)
\* C21: SetWithTTL(k, v, ttl) records expiration now + ttl for k in the TTL map,
\* replacing any earlier expiration of k, and forwards Set(k, v) to the wrapped
\* engine; Set(k, v) is SetWithTTL with the default TTL.  The record is written even
\* when the baseline engine is full and drops the value: Get(k) then misses while
\* GetTTL(k) finds k and Size() counts it.
C21_SetWithTTL ==
    [][\A k \in TTLKeys, v \in Vals :
          /\ \A ttl \in TTLs :
                (TTLCall("Set") /\ last'[2] = k /\ last'[3] = v /\ last'[6] = ttl) =>
                    /\ k \in DOMAIN ttlEntries'
                    /\ ttlEntries'[k] = TTLEntry(v, now + ttl)
                    /\ \A j \in TTLKeys \ {k} :
                          /\ (j \in DOMAIN ttlEntries') = (j \in DOMAIN ttlEntries)
                          /\ j \in DOMAIN ttlEntries => ttlEntries'[j] = ttlEntries[j]
                    /\ Install(EngSet(Engine, k, v))
                    /\ (policy = "NoEviction" /\ k \notin DOMAIN data
                           /\ Cardinality(DOMAIN data) >= maxSize) =>
                          /\ k \notin HeldKeys'
                          /\ k \in Unexpired'
                          /\ TTLSize' = Cardinality(Unexpired \cup {k})
          /\ TTLSet(k, v) => last'[6] = DefaultTTL]_vars

\* a store that the full baseline engine dropped and the TTL map recorded
C21_Witness ==
    /\ wrapped /\ policy = "NoEviction"
    /\ last[1] = "Set" /\ ~last[4]
    /\ last[2] \notin HeldKeys
    /\ last[2] \in Unexpired
    /\ Cardinality(DOMAIN data) >= maxSize

\* C22: Resize(n) returns exactly what the wrapped engine's Resize(n) returns and
\* never adds, removes or changes a TTL record, the records of the keys the engine
\* evicts during the resize included.
C22_ResizeDelegates ==
    [][\A n \in ResizeArgs :
          (TTLCall("Resize") /\ last'[2] = n) =>
              /\ last'[3] = ResizeErr(EngResize(Engine, n))
              /\ Install(EngResize(Engine, n))
              /\ ttlEntries' = ttlEntries]_vars

\* a resize evicted keys whose TTL records are still there
C22_Witness ==
    /\ wrapped /\ last[1] = "Resize" /\ last[3] = "nil"
    /\ last[4] # {}
    /\ last[4] \subseteq DOMAIN ttlEntries
    /\ last[4] \cap HeldKeys = {}

\* the records whose expiration instant has passed
Expired == {k \in DOMAIN ttlEntries : now > ttlEntries[k].ExpiresAt}

\* C23: one sweep removes from the TTL map and from the wrapped engine exactly the
\* keys whose expiration instant has passed, and leaves every unexpired record, its
\* expiration instant and its wrapped entry unchanged; a sweep that finds nothing
\* expired changes nothing.
C23_SweepTick ==
    [][TTLCall("cleanup") =>
          /\ DOMAIN ttlEntries' = DOMAIN ttlEntries \ Expired
          /\ \A j \in DOMAIN ttlEntries \ Expired : ttlEntries'[j] = ttlEntries[j]
          /\ HeldKeys' = HeldKeys \ Expired
          /\ \A j \in TTLKeys \ Expired :
                (EngGetResult(Engine, j))' = EngGetResult(Engine, j)
          /\ Expired = {} =>
                UNCHANGED <<ttlEntries, data, cache, size, heap, freqMap, minFreq, maxSize>>]_vars

\* a sweep took an expired key and left a record whose deadline is the current
\* instant, and its wrapped entry
C23_Witness ==
    /\ wrapped /\ last[1] = "cleanup" /\ last[2] # {}
    /\ last[2] \cap DOMAIN ttlEntries = {}
    /\ last[2] \cap HeldKeys = {}
    /\ \E j \in DOMAIN ttlEntries : ttlEntries[j].ExpiresAt = now /\ j \in HeldKeys

(***************************************************************************)
(* The background sweep and Stop                                           *)
(***************************************************************************)
\* Stop has been called: its value is in the channel, or the goroutine took it
StopCalled == stopCleanup = 1 \/ sweeper = "exited"

\* C24: while Stop() has not been called, every TTL record whose expiration instant
\* has passed is eventually removed from the TTL map and the wrapped engine by the
\* background sweep, with no caller operation on that key needed (the ticker keeps
\* firing, the goroutine is scheduled fairly).
C24_EventuallySwept ==
    \A k \in TTLKeys :
        (k \in Expired) ~>
            \/ k \notin DOMAIN ttlEntries /\ k \notin HeldKeys
            \/ k \in Unexpired
            \/ StopCalled

\* the goroutine, not stopped, has swept an expired record away
C24_Witness ==
    /\ wrapped /\ ~StopCalled /\ sweeper = "select"
    /\ last[1] = "cleanup" /\ last[2] # {}
    /\ last[2] \cap DOMAIN ttlEntries = {}
    /\ last[2] \cap HeldKeys = {}

\* C25: Stop() never blocks and never faults, for any number of calls and at any
\* moment: before the first tick, twice in a row, while a sweep is running, or
\* after the goroutine has exited.
C25_StopNeverBlocks ==
    [][/\ (wrapped /\ ~fault) => ENABLED TTLStop
       /\ TTLStop => ~fault' /\ stopCleanup' = 1 /\ sweeper' = sweeper]_vars

\* Stop has returned and its value sits in the channel while the goroutine is
\* inside a sweep or already gone
C25_Witness ==
    /\ wrapped /\ last[1] = "Stop" /\ ~fault
    /\ stopCleanup = 1
    /\ sweeper \in {"cleanup", "exited"}

\* C26: once Stop() has returned, no further sweep executes: the goroutine does
\* not enter cleanup any more and removes no TTL record; expired records are
\* reclaimed only by Get, Delete or Clear.
C26_AsStated ==
    [][StopCalled =>
          (/\ ~(sweeper = "select" /\ sweeper' = "cleanup")
           /\ (sweeper = "cleanup" /\ sweeper' = "select") =>
                  (ttlEntries' = ttlEntries))]_vars

\* C27: after a Stop() call the goroutine eventually leaves its loop and
\* terminates, and it is never cancelled in the middle of a sweep: it exits
\* only from its select, and a sweep that has started removes every expired
\* record before the goroutine is back at the select.
C27_StopTerminates ==
    /\ (wrapped /\ stopCleanup = 1) ~> (sweeper = "exited")
    /\ [][
          /\ (sweeper' = "exited" /\ sweeper # "exited") =>
                (sweeper = "select" /\ stopCleanup = 1)
          /\ (sweeper = "cleanup" /\ sweeper' # "cleanup") =>
                (/\ sweeper' = "select"
                 /\ last' = <<"cleanup", Expired>>
                 /\ Expired \cap DOMAIN ttlEntries' = {}
                 /\ Expired \cap HeldKeys' = {})
       ]_vars

\* Stop was called around a sweep that removed records; the sweep was completed
\* and the goroutine then took the stop value and exited
C27_Witness ==
    /\ wrapped /\ sweeper = "exited" /\ stopCleanup = 0
    /\ last[1] = "cleanup" /\ last[2] # {}
    /\ last[2] \cap DOMAIN ttlEntries = {}

\* the policy a selector names
PolicyOf(sel) ==
    CASE sel = NoEviction -> "NoEviction"
      [] sel = LRU -> "LRU"
      [] sel = LFU -> "LFU"
      [] OTHER -> "none"

\* C28: NewLittleCache returns the invalid-capacity error when MaxSize <= 0 and
\* the invalid-policy error when the selector is none of NoEviction, LRU, LFU;
\* for each of the three selectors with MaxSize > 0 it returns an engine of that
\* policy and no error.
C28_AsStated ==
    last[1] = "NewLittleCache" =>
        /\ last[3] <= 0 => last[4] = ErrInvalidMaxSize /\ policy = NilCache.policy
        /\ (last[3] > 0 /\ last[2] \notin {NoEviction, LRU, LFU}) =>
               (last[4] = ErrInvalidEvictionPolicy /\ policy = NilCache.policy)
        /\ (last[3] > 0 /\ last[2] \in {NoEviction, LRU, LFU}) =>
               (last[4] = ErrNone /\ policy = PolicyOf(last[2]))

C31_AsStated ==
    [][\A k \in Keys :
          (/\ policy = "LFU" /\ ~wrapped /\ ~fault
           /\ k \in DOMAIN cache
           /\ heap[cache[k]].freq = minFreq
           /\ last' = <<"Delete", k, TRUE>> /\ ~fault'
           /\ minFreq \notin DOMAIN freqMap'
           /\ size' > 0) =>
              (/\ minFreq' \in DOMAIN freqMap'
               /\ \A f \in DOMAIN freqMap' : minFreq' <= f)]_vars

\* the nodes linked in the ring of a bucket, from the node after its head
RECURSIVE LFURing(_, _, _, _)
LFURing(h, head, node, fuel) ==
    IF node = head \/ fuel = 0 \/ node \notin DOMAIN h THEN {}
    ELSE {node} \cup LFURing(h, head, h[node].next, fuel - 1)

LFUBucketNodes(f) == LFURing(heap, freqMap[f], heap[freqMap[f]].next, NumKeys + 1)

\* the key the call of this step touches: a Set of it, or a Get that finds it
LFUTouched(k) ==
    \/ last'[1] = "Set" /\ last'[2] = k
    \/ last'[1] = "Get" /\ last'[2] = k /\ last'[4]

\* C32: LFU, between the operations of a sequential run: each present key is a
\* member of exactly one frequency bucket, the one of its counter, and no bucket of
\* freqMap is empty; a key's counter is 1 right after the Set that inserts it and
\* grows by exactly 1 on each successful Get and each Set on the existing key, and
\* by nothing else.
C32_BucketsAndCounters ==
    /\ [](policy = "LFU" /\ ~fault =>
            /\ \A f \in DOMAIN freqMap : LFUBucketNodes(f) # {}
            /\ \A k \in DOMAIN cache :
                  /\ heap[cache[k]].freq \in DOMAIN freqMap
                  /\ \A f \in DOMAIN freqMap :
                        cache[k] \in LFUBucketNodes(f) <=> f = heap[cache[k]].freq)
    /\ [][
          (policy = "LFU" /\ ~fault /\ ~fault') =>
              \A k \in DOMAIN cache' :
                  heap'[cache'[k]].freq =
                      IF k \notin DOMAIN cache THEN 1
                      ELSE IF LFUTouched(k) THEN heap[cache[k]].freq + 1
                      ELSE heap[cache[k]].freq
       ]_vars

\* a Get has raised a key to frequency 2 while another key stays in bucket 1
C32_Witness ==
    /\ policy = "LFU" /\ ~fault
    /\ last[1] = "Get" /\ last[4]
    /\ heap[cache[last[2]]].freq = 2
    /\ DOMAIN freqMap = {1, 2}

(***************************************************************************)
(* Frame conditions of Resize, Delete, Clear and Get                       *)
(***************************************************************************)
\* C33: LRU: Resize(n) with 0 < n < Size() leaves exactly the n most recently
\* touched keys, with their values and relative order unchanged, and Size() = n;
\* Resize(n) with n >= Size() evicts nothing; in both cases a later Set evicts
\* exactly one key when the insertion exceeds the capacity in force, none otherwise.
C33_LRUResize ==
    [][policy = "LRU" =>
          /\ (last'[1] = "Resize" /\ last'[2] > 0 /\ last'[2] < size) =>
                /\ last'[3] = ErrNone
                /\ LRUListKeys(heap') = SubSeq(recency, 1, last'[2])
                /\ DOMAIN cache' = {recency[i] : i \in 1..last'[2]}
                /\ \A k \in DOMAIN cache' :
                      heap'[cache'[k]].value = heap[cache[k]].value
                /\ Size' = last'[2] /\ maxSize' = last'[2]
          /\ (last'[1] = "Resize" /\ last'[2] >= size /\ last'[2] > 0) =>
                /\ last'[3] = ErrNone /\ EvictedBy(last') = {}
                /\ LRUListKeys(heap') = recency
                /\ cache' = cache
                /\ \A k \in DOMAIN cache : heap'[cache[k]].value = heap[cache[k]].value
                /\ Size' = Size /\ maxSize' = last'[2]
          /\ (last'[1] = "Set" /\ ~last'[4]) =>
                /\ Cardinality(EvictedBy(last')) = IF size + 1 > maxSize THEN 1 ELSE 0
                /\ Size' <= maxSize
      ]_vars

\* a Resize has shrunk an LRU engine of three or more keys to two
C33_Witness ==
    /\ policy = "LRU"
    /\ last[1] = "Resize" /\ last[3] = ErrNone /\ last[4] # {}
    /\ last[2] = 2 /\ size = 2 /\ Len(recency) = 2

\* the keys of the ring of a bucket in the order of its links, from the node after
\* its head
RECURSIVE LFURingKeys(_, _, _, _)
LFURingKeys(h, head, node, fuel) ==
    IF node = head \/ fuel = 0 \/ node \notin DOMAIN h THEN <<>>
    ELSE <<h[node].key>> \o LFURingKeys(h, head, h[node].next, fuel - 1)

\* the eviction order an LFU engine stores: per frequency, the keys of its bucket
LFUOrder(e) ==
    [f \in DOMAIN e.freqMap |->
        LFURingKeys(e.heap, e.freqMap[f], e.heap[e.freqMap[f]].next, NumKeys + 1)]

\* C34: on the LRU, LFU and baseline engines Delete(k) of an absent key changes
\* nothing (size, keys, values, eviction order, minFreq); Delete(k) of a present
\* key removes only k, decrements Size() by exactly 1, and leaves the values and
\* the relative eviction order of all other keys unchanged.
C34_DeleteFrame ==
    [][\A k \in Keys :
          (~wrapped /\ ~fault /\ last'[1] = "Delete" /\ last'[2] = k) =>
              /\ ~fault'
              /\ last'[3] = (k \in HeldKeys)
              /\ k \notin HeldKeys => UNCHANGED engineVars
              /\ k \in HeldKeys =>
                    /\ HeldKeys' = HeldKeys \ {k}
                    /\ Size' = Size - 1
                    /\ maxSize' = maxSize
                    /\ \A j \in HeldKeys \ {k} :
                          (EngGetResult(Engine, j))' = EngGetResult(Engine, j)
                    /\ policy = "LRU" =>
                          LRUListKeys(heap') = RemoveKey(LRUListKeys(heap), k)
                    /\ policy = "LFU" =>
                          /\ \A j \in HeldKeys \ {k} :
                                (FreqOf(Engine))'[j] = FreqOf(Engine)[j]
                          /\ \A f \in DOMAIN freqMap :
                                IF RemoveKey(LFUOrder(Engine)[f], k) = <<>>
                                THEN f \notin DOMAIN freqMap'
                                ELSE /\ f \in DOMAIN freqMap'
                                     /\ (LFUOrder(Engine))'[f] =
                                           RemoveKey(LFUOrder(Engine)[f], k)
                          /\ DOMAIN freqMap' \subseteq DOMAIN freqMap
      ]_vars

\* a Delete has taken one key of an LFU engine; two keys of different frequency
\* remain
C34_Witness ==
    /\ policy = "LFU" /\ ~fault
    /\ last[1] = "Delete" /\ last[3]
    /\ size = 2 /\ DOMAIN freqMap = {1, 2}

\* C35: on the LRU, LFU and baseline engines, after Clear() Size() is 0, every Get
\* reports not-found, the capacity is the one in force before the Clear (one set by
\* an earlier Resize included), and the engine is in the state of a newly
\* constructed engine of that capacity, so that every later sequence of calls
\* returns what it returns on a new engine.
C35_ClearIsNew ==
    [][(~wrapped /\ ~fault /\ last'[1] = "Clear") =>
          /\ Size' = 0
          /\ \A k \in Keys \cup TestKeys : (EngGetResult(Engine, k))' = <<Nil, FALSE>>
          /\ maxSize' = maxSize
          /\ Engine' = NewCache(policy, maxSize)
      ]_vars

\* a Clear has returned on an LFU engine of the largest capacity
C35_Witness ==
    /\ policy = "LFU" /\ ~fault
    /\ last[1] = "Clear"
    /\ Size = 0 /\ freqMap = EmptyMap /\ minFreq = 0
    /\ maxSize = MaxCap

\* C36: on the LRU and LFU engines Get(k) of an absent key returns (nil, false) and
\* changes nothing: the recency order, every frequency counter, the buckets,
\* minFreq and Size() are as before, so a miss has no influence on the key evicted
\* next.
C36_MissChangesNothing ==
    [][\A k \in Keys :
          (/\ policy \in {"LRU", "LFU"} /\ ~wrapped /\ ~fault
           /\ last'[1] = "Get" /\ last'[2] = k
           /\ k \notin DOMAIN cache) =>
              /\ last' = <<"Get", k, Nil, FALSE>>
              /\ UNCHANGED engineVars
              /\ recency' = recency
              /\ Size' = Size
              /\ policy = "LRU" => LRUListKeys(heap') = LRUListKeys(heap)
              /\ policy = "LFU" => (LFUOrder(Engine))' = LFUOrder(Engine)
      ]_vars

\* a Get has missed on an LFU engine that holds keys in two buckets
C36_Witness ==
    /\ policy = "LFU" /\ ~fault
    /\ last[1] = "Get" /\ ~last[4] /\ last[2] \notin DOMAIN cache
    /\ size = 2 /\ DOMAIN freqMap = {1, 2} /\ minFreq = 1

(***************************************************************************)
(* TTL decorator: what reaches the wrapped engine                          *)
(***************************************************************************)
\* C37: TTL decorator: Get(k) on a key with an unexpired record returns exactly
\* what the wrapped engine's Get(k) returns and is a touch of k in the wrapped
\* LRU/LFU engine, without changing k's expiration; GetTTL, ExtendTTL and Size
\* never call the wrapped engine: its contents and eviction order stay as they are.
C37_DelegatedGet ==
    [][/\ \A k \in TTLKeys :
             (/\ TTLCall("Get") /\ last'[2] = k
              /\ k \in DOMAIN ttlEntries /\ ~IsExpired(ttlEntries[k], now)) =>
                 /\ last' = <<"Get", k>> \o EngGetResult(Engine, k)
                 /\ Install(EngGet(Engine, k))
                 /\ ttlEntries' = ttlEntries
                 /\ (policy = "LRU" /\ k \in DOMAIN cache) =>
                       LRUListKeys(heap')[1] = k
                 /\ (policy = "LFU" /\ k \in DOMAIN cache /\ ~fault') =>
                       heap'[cache'[k]].freq = heap[cache[k]].freq + 1
       /\ (TTLCall("GetTTL") \/ TTLCall("ExtendTTL") \/ TTLCall("Size")) =>
             /\ UNCHANGED engineVars
             /\ recency' = recency
      ]_vars

\* a decorator Get has found an unexpired key and raised its counter in the wrapped
\* LFU engine, which holds another key
C37_Witness ==
    /\ wrapped /\ policy = "LFU" /\ ~fault
    /\ last[1] = "Get" /\ last[4]
    /\ last[2] \in DOMAIN ttlEntries /\ ~IsExpired(ttlEntries[last[2]], now)
    /\ heap[cache[last[2]]].freq = 2
    /\ size = 2

\* C40: TTL decorator that alone uses its wrapped engine, between decorator calls
\* and sweeps: the keys of the wrapped engine are a subset of the keys of the TTL
\* map, for every sequence of Set, SetWithTTL, Get, Delete, Clear, Resize and sweeps.
C40_EngineKeysHaveRecords ==
    (wrapped /\ ~fault) => HeldKeys \subseteq DOMAIN ttlEntries

\* the wrapped engine holds a key and the TTL map holds more keys than the engine,
\* after a Resize that evicted
C40_Witness ==
    /\ wrapped /\ ~fault
    /\ last[1] = "Resize" /\ last[4] # {}
    /\ HeldKeys # {}
    /\ HeldKeys \subseteq DOMAIN ttlEntries /\ HeldKeys # DOMAIN ttlEntries

(***************************************************************************)
(* TTL decorator: concurrent callers                                       *)
(***************************************************************************)
\* C38: TTL decorator: a completed SetWithTTL(k, v, ttl) with ttl > 0 is never
\* undone by a concurrent Get(k): in every interleaving, the lazy expiration of
\* Get removes k only if k's record is expired at the moment of the removal.
C38_AsStated ==
    [][\A t \in Threads :
          (wrapped /\ pending[t].pc = "expire" /\ pending'[t].pc = "idle") =>
              (pending[t].key \in DOMAIN ttlEntries =>
                  IsExpired(ttlEntries[pending[t].key], now))]_vars

\* C39: TTL decorator over an LRU or LFU engine: no interleaving of concurrent
\* calls and sweeps deadlocks, so every call that starts eventually returns under
\* fair scheduling.
C39_AsStated ==
    \A t \in Threads : (wrapped /\ pending[t].pc # "idle") ~> (pending[t].pc = "idle")
====
